---- MODULE Spec2Model ----
(***************************************************************************)
(* Model of the audio core of liuw5367/recorder: the PCM quantizers, the   *)
(* buffer accumulator, the channel merger, the resampler, the volume meter  *)
(* (src/src/utils.ts, Recorder.getVolume of src/src/recorder.ts) and the WAV *)
(* codec with mergeWavBlob (src/src/wav.ts).  Spec applies one function to   *)
(* one set of argument values; HeapSpec runs calls on references to buffers  *)
(* a caller owns; RecorderSpec runs one Recorder (src/src/recorder.ts) in a  *)
(* browser, with the calls of the application and the events of the browser *)
(* interleaved as the awaits of open() and stop() allow.                     *)
(*                                                                         *)
(* JavaScript numbers are modelled as exact rationals n/d (reduced, d > 0) *)
(* together with the non-finite values NaN, +Infinity, -Infinity and the   *)
(* value undefined that an out-of-bounds typed-array read produces.        *)
(* An ArrayBuffer / DataView is a sequence of bytes 0..255; offsets are    *)
(* 0-based as in the source, so byte at offset o is view[o + 1].           *)
(***************************************************************************)
EXTENDS Integers, Sequences, FiniteSets, TLC

VARIABLES hostLittleEndian, call, ret, heap,
          this, sessions, closing, micro, event, listened

recorderVars == <<this, sessions, closing, micro, event, listened>>

vars == <<hostLittleEndian, call, ret, heap, recorderVars>>

(***************************************************************************)
(* Bounds of the model.                                                    *)
(***************************************************************************)
\* samples are the rationals a/Unit with -MaxAmp <= a <= MaxAmp
Unit == 4
MaxAmp == 6
\* longest Float32Array handed to a function
MaxLen == 3
\* most chunks / channels handed to a function
MaxChunks == 3
\* longest chunk / channel handed to the accumulator and the merger
MaxChunkLen == 2
\* most channels declared in a WAV header
MaxChannels == 2
\* bytes of a DataView that lie behind the 44-byte header
MaxExtra == 2
\* blobs handed to mergeWavBlob
MaxBlobs == 2
\* steps of the fine grid of samples between 0 and 1
SampleGrid == 1000
\* most audioprocess events the browser delivers
MaxEvents == 2
\* most calls of open() and stop() that wait at one time
MaxWaiting == 2

(***************************************************************************)
(* Numbers.                                                                *)
(***************************************************************************)
Abs(x) == IF x < 0 THEN -x ELSE x

RECURSIVE GCD(_, _)
GCD(a, b) == IF b = 0 THEN a ELSE GCD(b, a % b)

\* the rational n/d, d # 0, in lowest terms
Rat(n, d) ==
  LET g == GCD(Abs(n), Abs(d))
      s == IF d < 0 THEN -1 ELSE 1
  IN  [k |-> "num", n |-> (s * n) \div g, d |-> (s * d) \div g]

Int2Num(i) == [k |-> "num", n |-> i, d |-> 1]
NaN == [k |-> "nan", n |-> 0, d |-> 1]
PosInf == [k |-> "inf", n |-> 1, d |-> 1]
NegInf == [k |-> "inf", n |-> -1, d |-> 1]
Undefined == [k |-> "undef", n |-> 0, d |-> 1]

IsNum(x) == x.k = "num"
\* NaN, and undefined (which ToNumber turns into NaN)
IsNaN(x) == x.k \in {"nan", "undef"}

\* ToNumber as applied by arithmetic operators and typed-array stores
ToNumber(x) == IF x.k = "undef" THEN NaN ELSE x

\* x < y of JavaScript: false as soon as one side is NaN
Lt(x, y) ==
  IF IsNaN(x) \/ IsNaN(y) THEN FALSE
  ELSE IF x.k = "inf" THEN x.n < 0 /\ ~(y.k = "inf" /\ y.n < 0)
  ELSE IF y.k = "inf" THEN y.n > 0
  ELSE x.n * y.d < y.n * x.d

\* x * y; NaN propagates, 0 * Infinity is NaN, Infinity keeps or flips its sign
Mul(x, y) ==
  IF IsNaN(x) \/ IsNaN(y) THEN NaN
  ELSE IF x.k = "inf" \/ y.k = "inf"
    THEN IF x.n = 0 \/ y.n = 0 THEN NaN
         ELSE IF (x.n > 0) = (y.n > 0) THEN PosInf ELSE NegInf
  ELSE LET g1 == GCD(Abs(x.n), y.d)
           g2 == GCD(Abs(y.n), x.d)
       IN  Rat((x.n \div g1) * (y.n \div g2), (x.d \div g2) * (y.d \div g1))

\* x + y; NaN propagates, Infinity - Infinity is NaN
Add(x, y) ==
  IF IsNaN(x) \/ IsNaN(y) THEN NaN
  ELSE IF x.k = "inf" THEN IF y.k = "inf" /\ y.n # x.n THEN NaN ELSE x
  ELSE IF y.k = "inf" THEN y
  ELSE LET g == GCD(x.d, y.d)
       IN  Rat(x.n * (y.d \div g) + y.n * (x.d \div g), (x.d \div g) * y.d)

Neg(x) == IF IsNaN(x) THEN NaN ELSE [x EXCEPT !.n = -x.n]
Sub(x, y) == Add(x, Neg(y))

\* x / y for a finite y: 0/0 is NaN, a/0 is +-Infinity
Div(x, y) ==
  IF IsNaN(x) \/ IsNaN(y) THEN NaN
  ELSE IF y.n = 0 /\ x.k = "num"
    THEN IF x.n = 0 THEN NaN ELSE IF x.n > 0 THEN PosInf ELSE NegInf
  ELSE Mul(x, Rat(y.d, y.n))

\* Math.min / Math.max: NaN if either argument is NaN
MathMin(x, y) == IF IsNaN(x) \/ IsNaN(y) THEN NaN ELSE IF Lt(y, x) THEN y ELSE x
MathMax(x, y) == IF IsNaN(x) \/ IsNaN(y) THEN NaN ELSE IF Lt(x, y) THEN y ELSE x

\* Math.abs
MathAbs(x) == IF IsNaN(x) THEN NaN ELSE [x EXCEPT !.n = Abs(x.n)]

\* a rounding that drops the fraction
MathRound_Floor(x) == x.n \div x.d

\* Math.round of a finite number: the nearest integer, halves rounded up
MathRound(x) == (2 * x.n + x.d) \div (2 * x.d)

\* Math.floor / Math.ceil of a finite number, as integers
Floor(x) == x.n \div x.d
Ceil(x) == -((-x.n) \div x.d)

\* the integer part of a finite number (rounding toward zero)
Trunc(x) == IF x.n >= 0 THEN x.n \div x.d ELSE -((-x.n) \div x.d)

\* ToInt16 / ToInt8 of a typed-array store and of DataView.setInt16 / setInt8:
\* NaN and the infinities give 0, other numbers are truncated and wrapped
ToInt16(x) ==
  IF ~IsNum(ToNumber(x)) THEN 0
  ELSE LET m == Trunc(x) % 65536 IN IF m >= 32768 THEN m - 65536 ELSE m

\* a store that saturates at the ends of the signed range instead of wrapping
ToInt8_Saturating(x) ==
  IF ~IsNum(ToNumber(x)) THEN 0
  ELSE IF Trunc(x) > 127 THEN 127 ELSE IF Trunc(x) < -128 THEN -128 ELSE Trunc(x)

ToInt8(x) ==
  IF ~IsNum(ToNumber(x)) THEN 0
  ELSE LET m == Trunc(x) % 256 IN IF m >= 128 THEN m - 256 ELSE m

\* the outcome of a call: a returned value or a thrown Error
Return(v) == [tag |-> "return", value |-> v]
Throw(m) == [tag |-> "throw", message |-> m]

(***************************************************************************)
(* PCM quantizer (utils.ts).                                               *)
(***************************************************************************)
\* a quantizer that forgets the +128 offset
float32Value2Int8_NoOffset(data) ==
  LET s == MathMax(Int2Num(-1), MathMin(Int2Num(1), ToNumber(data)))
  IN  IF Lt(s, Int2Num(0)) THEN Mul(s, Int2Num(128)) ELSE Mul(s, Int2Num(127))

float32Value2Int8(data) ==
  LET s == MathMax(Int2Num(-1), MathMin(Int2Num(1), ToNumber(data)))
      val == IF Lt(s, Int2Num(0)) THEN Mul(s, Int2Num(128)) ELSE Mul(s, Int2Num(127))
  IN  Add(val, Int2Num(128))

\* a quantizer that scales both signs by 32768
float32Value2Int16_Symmetric(data) ==
  LET s == MathMax(Int2Num(-1), MathMin(Int2Num(1), ToNumber(data)))
  IN  Mul(s, Int2Num(32768))

\* a quantizer that forgets to clamp
float32Value2Int16_NoClamp(data) ==
  LET s == ToNumber(data)
  IN  IF Lt(s, Int2Num(0)) THEN Mul(s, Int2Num(32768)) ELSE Mul(s, Int2Num(32767))

float32Value2Int16(data) ==
  LET s == MathMax(Int2Num(-1), MathMin(Int2Num(1), ToNumber(data)))
  IN  IF Lt(s, Int2Num(0)) THEN Mul(s, Int2Num(32768)) ELSE Mul(s, Int2Num(32767))

(***************************************************************************)
(* Float32Array.                                                           *)
(***************************************************************************)
\* new Float32Array(n): n zeros
Float32Array(n) == [i \in 1..n |-> Int2Num(0)]

\* array[i]: undefined outside 0..length-1
Get(array, i) == IF 0 <= i /\ i < Len(array) THEN array[i + 1] ELSE Undefined

\* array[i] = value: ToNumber(value) is stored, a store outside the array is ignored
Put(array, i, value) ==
  IF 0 <= i /\ i < Len(array) THEN [array EXCEPT ![i + 1] = ToNumber(value)] ELSE array

\* target.set(source, offset)
TypedArraySet(target, source, offset) ==
  [i \in 1..Len(target) |->
     IF offset < i /\ i <= offset + Len(source) THEN source[i - offset] ELSE target[i]]

(***************************************************************************)
(* Buffer accumulator and channel merger (utils.ts).                       *)
(***************************************************************************)
RECURSIVE totalLength(_, _)
totalLength(buffer, i) ==
  IF i > Len(buffer) THEN 0 ELSE Len(buffer[i]) + totalLength(buffer, i + 1)

RECURSIVE copyChunks(_, _, _, _)
copyChunks(data, buffer, i, offset) ==
  IF i > Len(buffer) THEN data
  ELSE copyChunks(TypedArraySet(data, buffer[i], offset), buffer, i + 1,
                  offset + Len(buffer[i]))

\* an accumulator that never advances the write offset
RECURSIVE copyChunksAtZero(_, _, _)
copyChunksAtZero(data, buffer, i) ==
  IF i > Len(buffer) THEN data
  ELSE copyChunksAtZero(TypedArraySet(data, buffer[i], 0), buffer, i + 1)

compressFloat32_NoOffset(buffer) ==
  IF Len(buffer) = 0 THEN Float32Array(0)
  ELSE IF Len(buffer) = 1 THEN buffer[1]
  ELSE copyChunksAtZero(Float32Array(totalLength(buffer, 1)), buffer, 1)

compressFloat32(buffer) ==
  IF Len(buffer) = 0 THEN Float32Array(0)
  ELSE IF Len(buffer) = 1 THEN buffer[1]
  ELSE copyChunks(Float32Array(totalLength(buffer, 1)), buffer, 1, 0)

\* the longest channel, starting from channels[0].length
RECURSIVE longestChannel(_, _, _)
longestChannel(channels, j, channelLength) ==
  IF j > Len(channels) THEN channelLength
  ELSE longestChannel(channels, j + 1,
                      IF Len(channels[j]) > channelLength THEN Len(channels[j])
                      ELSE channelLength)

\* the nested loops mergedData[i * channels.length + j] = channels[j][i]
RECURSIVE mergeLoop(_, _, _, _, _)
mergeLoop(mergedData, channels, channelLength, i, j) ==
  IF i >= channelLength THEN mergedData
  ELSE IF j >= Len(channels) THEN mergeLoop(mergedData, channels, channelLength, i + 1, 0)
  ELSE mergeLoop(Put(mergedData, i * Len(channels) + j, Get(channels[j + 1], i)),
                 channels, channelLength, i, j + 1)

\* a merger that lays the channels out one after the other (planar)
RECURSIVE planarLoop(_, _, _, _, _)
planarLoop(mergedData, channels, channelLength, i, j) ==
  IF i >= channelLength THEN mergedData
  ELSE IF j >= Len(channels) THEN planarLoop(mergedData, channels, channelLength, i + 1, 0)
  ELSE planarLoop(Put(mergedData, j * channelLength + i, Get(channels[j + 1], i)),
                  channels, channelLength, i, j + 1)

mergeMultiChannelsBuffer_Planar(channels) ==
  IF Len(channels) = 1 THEN Return(channels[1])
  ELSE IF Len(channels) = 0 THEN Throw("TypeError")
  ELSE LET channelLength == longestChannel(channels, 1, Len(channels[1]))
           mergedData == Float32Array(channelLength * Len(channels))
       IN  Return(planarLoop(mergedData, channels, channelLength, 0, 0))

\* mergeMultiChannelsBuffer; with no channel at all channels[0].length throws
mergeMultiChannelsBuffer(channels) ==
  IF Len(channels) = 1 THEN Return(channels[1])
  ELSE IF Len(channels) = 0 THEN Throw("TypeError")
  ELSE LET channelLength == longestChannel(channels, 1, Len(channels[1]))
           mergedData == Float32Array(channelLength * Len(channels))
       IN  Return(mergeLoop(mergedData, channels, channelLength, 0, 0))

(***************************************************************************)
(* Resampler (utils.ts).                                                   *)
(***************************************************************************)
\* an optional Float32Array argument: null / undefined, or an array
Null == [null |-> TRUE, data |-> <<>>]
Some(array) == [null |-> FALSE, data |-> array]

RECURSIVE IsPowerOfTwo(_)
IsPowerOfTwo(d) == d = 1 \/ (d % 2 = 0 /\ IsPowerOfTwo(d \div 2))

\* an interpolation that takes the sample at floor, without the weighted part
interpolate_NoWeight(S, inputLength, f, n, round) ==
  LET fn == Mul(f, Int2Num(n))
      floor == IF Floor(fn) >= inputLength THEN inputLength - 1 ELSE Floor(fn)
  IN  [ceil |-> floor, floor |-> floor, value |-> Get(S, floor)]

\* One step of the interpolation loop.  fn = f * n is a double product: when f
\* is not exactly representable and the exact product is an integer e, the
\* double can be e or lie just below or just above e; round (-1, 0, 1) is the
\* side on which it lies.  The weight fn - floor is then 1, 0, 0 up to one
\* rounding error.
\* an interpolation step without the guards against index overflow
interpolate_NoGuard(S, inputLength, f, n, round) ==
  LET fn == Mul(f, Int2Num(n))
      inexact == ~IsPowerOfTwo(f.d) /\ fn.d = 1
      ceil == IF inexact /\ round = 1 THEN Ceil(fn) + 1 ELSE Ceil(fn)
      floor == IF inexact /\ round = -1 THEN Floor(fn) - 1 ELSE Floor(fn)
      weight == Sub(fn, Int2Num(floor))
  IN  [ceil |-> ceil, floor |-> floor,
       value |-> Add(Get(S, floor), Mul(weight, Sub(Get(S, ceil), Get(S, floor))))]

interpolate(S, inputLength, f, n, round) ==
  LET fn == Mul(f, Int2Num(n))
      inexact == ~IsPowerOfTwo(f.d) /\ fn.d = 1
      ceil0 == IF inexact /\ round = 1 THEN Ceil(fn) + 1 ELSE Ceil(fn)
      floor0 == IF inexact /\ round = -1 THEN Floor(fn) - 1 ELSE Floor(fn)
      ceil == IF ceil0 >= inputLength /\ floor0 < inputLength THEN floor0
              ELSE IF ceil0 >= inputLength /\ floor0 >= inputLength THEN inputLength - 1
              ELSE ceil0
      floor == IF ceil0 >= inputLength /\ floor0 >= inputLength THEN inputLength - 1
               ELSE floor0
      weight == Sub(fn, Int2Num(floor))
  IN  [ceil |-> ceil, floor |-> floor,
       value |-> Add(Get(S, floor), Mul(weight, Sub(Get(S, ceil), Get(S, floor))))]

\* a converter that takes the equal-rates shortcut before validating
sampleRateConverter_IdentityFirst(input, inputSampleRate, outputSampleRate, round) ==
  IF inputSampleRate = outputSampleRate THEN Return(input.data)
  ELSE IF input.null THEN Throw("input data is null")
  ELSE Throw("sample rate must be greater than 1")

\* a converter that never copies input[0] into output[0]
sampleRateConverter_NoFirstSample(input, inputSampleRate, outputSampleRate, round) ==
  IF input.null THEN Throw("input data is null")
  ELSE IF inputSampleRate <= 1 \/ outputSampleRate <= 1
    THEN Throw("sample rate must be greater than 1")
  ELSE IF inputSampleRate = outputSampleRate THEN Return(input.data)
  ELSE LET inputLength == Len(input.data)
           outputLength == MathRound(Rat(inputLength * outputSampleRate, inputSampleRate))
           S == [i \in 1..inputLength |-> Div(input.data[i], Int2Num(32768))]
           f == Div(Int2Num(inputLength - 1), Int2Num(outputLength - 1))
           T == [n \in 1..(outputLength - 1) |->
                   interpolate(S, inputLength, f, n, round).value]
       IN  Return([i \in 1..outputLength |->
                     IF i = 1 THEN Int2Num(0) ELSE Mul(T[i - 1], Int2Num(32768))])

\* a converter whose loops start at index 0, so that output[0] is interpolated
\* with the weight f * 0
sampleRateConverter_LoopFromZero(input, inputSampleRate, outputSampleRate, round) ==
  IF input.null THEN Throw("input data is null")
  ELSE IF inputSampleRate <= 1 \/ outputSampleRate <= 1
    THEN Throw("sample rate must be greater than 1")
  ELSE IF inputSampleRate = outputSampleRate THEN Return(input.data)
  ELSE LET inputLength == Len(input.data)
           outputLength == MathRound(Rat(inputLength * outputSampleRate, inputSampleRate))
           S == [i \in 1..inputLength |-> Div(input.data[i], Int2Num(32768))]
           f == Div(Int2Num(inputLength - 1), Int2Num(outputLength - 1))
           T == [n \in 1..(outputLength - 1) |->
                   interpolate(S, inputLength, f, n, round).value]
           T0 == Add(Get(S, 0), Mul(Mul(f, Int2Num(0)), Sub(Get(S, 0), Get(S, 0))))
       IN  Return([i \in 1..outputLength |->
                     Mul(IF i = 1 THEN T0 ELSE T[i - 1], Int2Num(32768))])

sampleRateConverter(input, inputSampleRate, outputSampleRate, round) ==
  IF input.null THEN Throw("input data is null")
  ELSE IF inputSampleRate <= 1 \/ outputSampleRate <= 1
    THEN Throw("sample rate must be greater than 1")
  ELSE IF inputSampleRate = outputSampleRate THEN Return(input.data)
  ELSE LET inputLength == Len(input.data)
           outputLength == MathRound(Rat(inputLength * outputSampleRate, inputSampleRate))
           S == [i \in 1..inputLength |-> Div(input.data[i], Int2Num(32768))]
           f == Div(Int2Num(inputLength - 1), Int2Num(outputLength - 1))
           T == [n \in 1..(outputLength - 1) |->
                   interpolate(S, inputLength, f, n, round).value]
           output0 == Put(Float32Array(outputLength), 0, Get(input.data, 0))
       IN  Return([i \in 1..outputLength |->
                     IF i = 1 THEN output0[1] ELSE Mul(T[i - 1], Int2Num(32768))])

(***************************************************************************)
(* Volume meter (utils.ts, recorder.ts).                                   *)
(***************************************************************************)
\* the inner loop of convertToMono: sum += multiChannelData[j][i]
RECURSIVE sumChannels(_, _, _, _)
sumChannels(multiChannelData, i, j, sum) ==
  IF j >= Len(multiChannelData) THEN sum
  ELSE sumChannels(multiChannelData, i, j + 1,
                   Add(sum, ToNumber(Get(multiChannelData[j + 1], i))))

\* the outer loop of convertToMono: monoData[i] = sum / channels
RECURSIVE monoLoop(_, _, _, _)
monoLoop(monoData, multiChannelData, samples, i) ==
  IF i >= samples THEN monoData
  ELSE monoLoop(Put(monoData, i, Div(sumChannels(multiChannelData, i, 0, Int2Num(0)),
                                     Int2Num(Len(multiChannelData)))),
                multiChannelData, samples, i + 1)

\* convertToMono: a single channel is returned as it is; multiChannelData[0].length
\* of no channel at all is a TypeError
convertToMono(multiChannelData) ==
  LET channels == Len(multiChannelData)
  IN  IF channels = 1 THEN Return(multiChannelData[1])
      ELSE IF channels = 0 THEN Throw("TypeError")
      ELSE LET samples == Len(multiChannelData[1])
           IN  Return(monoLoop(Float32Array(samples), multiChannelData, samples, 0))

\* the loop of calcPcmAbsSum: sum += Math.abs(float32Value2Int16(data[j]))
RECURSIVE absSumLoop(_, _, _)
absSumLoop(data, j, sum) ==
  IF j >= Len(data) THEN sum
  ELSE absSumLoop(data, j + 1, Add(sum, MathAbs(float32Value2Int16(Get(data, j)))))

calcPcmAbsSum(buffers) ==
  LET data == convertToMono(buffers)
  IN  IF data.tag = "throw" THEN data
      ELSE Return(absSumLoop(data.value, 0, Int2Num(0)))

\* LogThresholds[i], in hundredths, is the least power at which
\* (1 + Math.log(power / 10000) / Math.log(10)) * 100 rounds to 10 + i
LogThresholds == <<
    127351, 130317, 133353, 136459, 139637, 142890, 146218, 149624, 153109,
    156676, 160325, 164059, 167881, 171791, 175793, 179888, 184078, 188365,
    192753, 197243, 201837, 206539, 211349, 216272, 221310, 226465, 231740,
    237138, 242662, 248314, 254098, 260016, 266073, 272271, 278613, 285102,
    291743, 298539, 305493, 312608, 319890, 327341, 334966, 342768, 350752,
    358922, 367283, 375838, 384592, 393551, 402718, 412098, 421697, 431520,
    441571, 451856, 462382, 473152, 484173, 495451, 506991, 518801, 530885,
    543251, 555905, 568853, 582104, 595663, 609537, 623735, 638264, 653131,
    668344, 683912, 699842, 716144, 732825, 749895, 767362, 785236, 803527,
    822243, 841396, 860994, 881049, 901572, 922572, 944061, 966051, 988554,
    1011580, 1035143, 1059254, 1083927, 1109175, 1135011, 1161449, 1188503, 1216187,
    1244515, 1273504, 1303167, 1333522, 1364584, 1396369, 1428894, 1462178, 1496236,
    1531088, 1566752, 1603246, 1640590, 1678805, 1717909, 1757924, 1798871, 1840773,
    1883650, 1927525, 1972423, 2018367, 2065381, 2113490, 2162719, 2213095, 2264645,
    2317395, 2371374, 2426611, 2483134, 2540973, 2600160, 2660726, 2722702, 2786122,
    2851019, 2917428, 2985383, 3054922, 3126080, 3198896, 3273407
>>

\* a finite power >= 0 in hundredths, rounded down
Hundredths(power) ==
  100 * (power.n \div power.d) + (100 * (power.n % power.d)) \div power.d

\* Math.round((1 + Math.log(power / 10000) / Math.log(10)) * 100) for a power
\* of the logarithmic region, 1251 <= power <= 32768, and for Infinity
roundedLogScale(power) ==
  IF ~IsNum(power) THEN power
  ELSE LET hundredths == Hundredths(power)
       IN  Int2Num(10 + Cardinality({i \in 1..Len(LogThresholds) :
                                       hundredths >= LogThresholds[i]}))

\* a meter without the upper clamp of the logarithmic region
calcVolumePercentage_NoClamp(pcmAbsSum, pcmLength) ==
  LET quotient == Div(pcmAbsSum, pcmLength)
      power == IF IsNaN(quotient) \/ (IsNum(quotient) /\ quotient.n = 0)
                 THEN Int2Num(0) ELSE quotient
  IN  IF Lt(power, Int2Num(1251))
        THEN IF IsNum(power)
               THEN Int2Num(MathRound(Mul(Div(power, Int2Num(1250)), Int2Num(10))))
               ELSE power
      ELSE MathMax(Int2Num(0), roundedLogScale(power))

\* a meter whose linear region runs up to 100 instead of 10
calcVolumePercentage_SteepLinear(pcmAbsSum, pcmLength) ==
  LET quotient == Div(pcmAbsSum, pcmLength)
      power == IF IsNaN(quotient) \/ (IsNum(quotient) /\ quotient.n = 0)
                 THEN Int2Num(0) ELSE quotient
  IN  IF Lt(power, Int2Num(1251))
        THEN IF IsNum(power)
               THEN Int2Num(MathRound(Mul(Div(power, Int2Num(1250)), Int2Num(100))))
               ELSE power
      ELSE MathMin(Int2Num(100), MathMax(Int2Num(0), roundedLogScale(power)))

\* calcVolumePercentage: power = (pcmAbsSum / pcmLength) || 0 turns NaN and 0
\* into 0.  Rounding commutes with the clamp to the integers 0 and 100, so the
\* level of the logarithmic region is the clamped roundedLogScale
calcVolumePercentage(pcmAbsSum, pcmLength) ==
  LET quotient == Div(pcmAbsSum, pcmLength)
      power == IF IsNaN(quotient) \/ (IsNum(quotient) /\ quotient.n = 0)
                 THEN Int2Num(0) ELSE quotient
  IN  IF Lt(power, Int2Num(1251))
        THEN IF IsNum(power)
               THEN Int2Num(MathRound(Mul(Div(power, Int2Num(1250)), Int2Num(10))))
               ELSE power
      ELSE MathMin(Int2Num(100), MathMax(Int2Num(0), roundedLogScale(power)))

\* Recorder.getVolume: buffers[0]?.length || 0 is 0 when there is no channel
getVolume(buffers) ==
  LET pcmAbsSum == calcPcmAbsSum(buffers)
      pcmLength == IF Len(buffers) = 0 THEN 0 ELSE Len(buffers[1])
  IN  IF pcmAbsSum.tag = "throw" THEN pcmAbsSum
      ELSE Return(calcVolumePercentage(pcmAbsSum.value, Int2Num(pcmLength)))

(***************************************************************************)
(* ArrayBuffer and DataView.                                               *)
(***************************************************************************)
\* new ArrayBuffer(n): n zero bytes
ArrayBuffer(n) == [i \in 1..n |-> 0]

\* ToIntegerOrInfinity as used by new ArrayBuffer and the DataView setters:
\* the integer part of a finite number, 0 for NaN
ToInteger(x) == IF ~IsNum(ToNumber(x)) THEN 0 ELSE Trunc(x)

\* byte i (0 = least significant) of the two's complement form of integer v
ByteOf(v, i) == (v \div (256 ^ i)) % 256

\* DataView.setUint8 / setInt8: the value modulo 2^8
setUint8(view, byteOffset, value) ==
  [view EXCEPT ![byteOffset + 1] = ByteOf(ToInteger(value), 0)]

setInt8(view, byteOffset, value) ==
  [view EXCEPT ![byteOffset + 1] = ByteOf(ToInteger(value), 0)]

\* DataView.setUint16 / setInt16: the value modulo 2^16 in the given byte order
setUint16(view, byteOffset, value, littleEndian) ==
  LET v == ToInteger(value)
  IN  [view EXCEPT ![byteOffset + 1] = ByteOf(v, IF littleEndian THEN 0 ELSE 1),
                   ![byteOffset + 2] = ByteOf(v, IF littleEndian THEN 1 ELSE 0)]

setInt16(view, byteOffset, value, littleEndian) ==
  LET v == ToInteger(value)
  IN  [view EXCEPT ![byteOffset + 1] = ByteOf(v, IF littleEndian THEN 0 ELSE 1),
                   ![byteOffset + 2] = ByteOf(v, IF littleEndian THEN 1 ELSE 0)]

\* DataView.setUint32: the value modulo 2^32 in the given byte order
setUint32(view, byteOffset, value, littleEndian) ==
  LET v == ToInteger(value)
  IN  [view EXCEPT ![byteOffset + 1] = ByteOf(v, IF littleEndian THEN 0 ELSE 3),
                   ![byteOffset + 2] = ByteOf(v, IF littleEndian THEN 1 ELSE 2),
                   ![byteOffset + 3] = ByteOf(v, IF littleEndian THEN 2 ELSE 1),
                   ![byteOffset + 4] = ByteOf(v, IF littleEndian THEN 3 ELSE 0)]

\* isLittleEndian(): the byte order of the host's typed arrays
isLittleEndian == hostLittleEndian

(***************************************************************************)
(* WAV codec (wav.ts).                                                     *)
(***************************************************************************)
\* the character codes of the four chunk identifiers
RIFF == <<82, 73, 70, 70>>
WAVE == <<87, 65, 86, 69>>
FMT == <<102, 109, 116, 32>>
DATA == <<100, 97, 116, 97>>

RECURSIVE writeStringFrom(_, _, _, _)
writeStringFrom(view, offset, content, i) ==
  IF i >= Len(content) THEN view
  ELSE writeStringFrom(setUint8(view, offset + i, Int2Num(content[i + 1])),
                       offset, content, i + 1)

writeString(view, offset, content) == writeStringFrom(view, offset, content, 0)

\* a header whose RIFF chunk length forgets the 36 header bytes
writeWavHeader_NoRiffOffset(view, length, sampleRate, numberOfChannels, bitDepth, littleEndian) ==
  LET bytesPerSample == Rat(bitDepth, 8)
      v1 == writeString(view, 0, RIFF)
      v2 == setUint32(v1, 4, length, littleEndian)
      v3 == writeString(v2, 8, WAVE)
      v4 == writeString(v3, 12, FMT)
      v5 == setUint32(v4, 16, Int2Num(16), littleEndian)
      v6 == setUint16(v5, 20, Int2Num(1), littleEndian)
      v7 == setUint16(v6, 22, Int2Num(numberOfChannels), littleEndian)
      v8 == setUint32(v7, 24, Int2Num(sampleRate), littleEndian)
      v9 == setUint32(v8, 28, Mul(Int2Num(sampleRate * numberOfChannels), bytesPerSample), littleEndian)
      v10 == setUint16(v9, 32, Mul(Int2Num(numberOfChannels), bytesPerSample), littleEndian)
      v11 == setUint16(v10, 34, Int2Num(bitDepth), littleEndian)
      v12 == writeString(v11, 36, DATA)
  IN  setUint32(v12, 40, length, littleEndian)

\* writeWavHeader: the view after the thirteen writes, in source order
writeWavHeader(view, length, sampleRate, numberOfChannels, bitDepth, littleEndian) ==
  LET bytesPerSample == Rat(bitDepth, 8)
      v1 == writeString(view, 0, RIFF)
      v2 == setUint32(v1, 4, Add(Int2Num(36), length), littleEndian)
      v3 == writeString(v2, 8, WAVE)
      v4 == writeString(v3, 12, FMT)
      v5 == setUint32(v4, 16, Int2Num(16), littleEndian)
      v6 == setUint16(v5, 20, Int2Num(1), littleEndian)
      v7 == setUint16(v6, 22, Int2Num(numberOfChannels), littleEndian)
      v8 == setUint32(v7, 24, Int2Num(sampleRate), littleEndian)
      v9 == setUint32(v8, 28, Mul(Int2Num(sampleRate * numberOfChannels), bytesPerSample), littleEndian)
      v10 == setUint16(v9, 32, Mul(Int2Num(numberOfChannels), bytesPerSample), littleEndian)
      v11 == setUint16(v10, 34, Int2Num(bitDepth), littleEndian)
      v12 == writeString(v11, 36, DATA)
  IN  setUint32(v12, 40, length, littleEndian)

createWavHeaderBuffer(length, sampleRate, numberOfChannels, bitDepth, littleEndian) ==
  writeWavHeader(ArrayBuffer(44), length, sampleRate, numberOfChannels, bitDepth, littleEndian)

\* the payload loops of numberArray2wav over new DataView(buffer, 44)
RECURSIVE writeInt8Samples(_, _, _)
writeInt8Samples(view, data, i) ==
  IF i >= Len(data) THEN view
  ELSE writeInt8Samples(setInt8(view, 44 + i, Int2Num(data[i + 1])), data, i + 1)

RECURSIVE writeInt16Samples(_, _, _, _)
writeInt16Samples(view, data, i, littleEndian) ==
  IF i >= Len(data) THEN view
  ELSE writeInt16Samples(setInt16(view, 44 + i * 2, Int2Num(data[i + 1]), littleEndian),
                         data, i + 1, littleEndian)

\* an encoder whose header declares the number of samples instead of bytes
numberArray2wav_SampleCount(data, numberOfChannels, sampleRate, bitDepth, littleEndian) ==
  LET offset == 44
      length == Rat(Len(data) * bitDepth, 8)
      buffer == ArrayBuffer(ToInteger(Add(Int2Num(offset), length)))
      view == writeWavHeader(buffer, Int2Num(Len(data)), sampleRate, numberOfChannels,
                             bitDepth, isLittleEndian)
  IN  IF bitDepth = 8 THEN Return(writeInt8Samples(view, data, 0))
      ELSE IF bitDepth = 16 THEN Return(writeInt16Samples(view, data, 0, littleEndian))
      ELSE Throw("bitDepth must be 8 or 16")

\* numberArray2wav; the header is written by writeWavHeader called without
\* its littleEndian argument, which therefore takes its default isLittleEndian()
numberArray2wav(data, numberOfChannels, sampleRate, bitDepth, littleEndian) ==
  LET offset == 44
      length == Rat(Len(data) * bitDepth, 8)
      buffer == ArrayBuffer(ToInteger(Add(Int2Num(offset), length)))
      view == writeWavHeader(buffer, length, sampleRate, numberOfChannels, bitDepth, isLittleEndian)
  IN  IF bitDepth = 8 THEN Return(writeInt8Samples(view, data, 0))
      ELSE IF bitDepth = 16 THEN Return(writeInt16Samples(view, data, 0, littleEndian))
      ELSE Throw("bitDepth must be 8 or 16")

\* float32Buffer2wav: quantize into an Int8Array / Int16Array, spread into a
\* number[], hand over to numberArray2wav
float32Buffer2wav(data, numberOfChannels, sampleRate, bitDepth, littleEndian) ==
  IF bitDepth = 8
    THEN numberArray2wav([i \in 1..Len(data) |-> ToInt8(float32Value2Int8(data[i]))],
                         numberOfChannels, sampleRate, bitDepth, littleEndian)
  ELSE IF bitDepth = 16
    THEN numberArray2wav([i \in 1..Len(data) |-> ToInt16(float32Value2Int16(data[i]))],
                         numberOfChannels, sampleRate, bitDepth, littleEndian)
  ELSE Throw("bitDepth must be 8 or 16")

\* data.map(buffer => sampleRateConverter(compressFloat32(buffer), ...)) of
\* mergeMultiChannelBuffer2Wav.  compressFloat32 never returns null, so the
\* converter throws on the rates alone, for the first channel if for any, and
\* that throw ends the map
resampleChannels(data, sampleRate, outputSampleRate, round) ==
  IF Len(data) > 0 /\ (sampleRate <= 1 \/ outputSampleRate <= 1)
    THEN sampleRateConverter(Some(compressFloat32(data[1])), sampleRate, outputSampleRate,
                             round)
  ELSE Return([j \in 1..Len(data) |->
                 sampleRateConverter(Some(compressFloat32(data[j])), sampleRate,
                                     outputSampleRate, round).value])

\* mergeMultiChannelBuffer2Wav: numberOfChannels = data.length, the container
\* is written in the byte order of the host
mergeMultiChannelBuffer2Wav(data, sampleRate, outputSampleRate, outputBitDepth, round) ==
  LET numberOfChannels == Len(data)
      channelsBuffer == resampleChannels(data, sampleRate, outputSampleRate, round)
  IN  IF channelsBuffer.tag = "throw" THEN channelsBuffer
      ELSE LET buffers == mergeMultiChannelsBuffer(channelsBuffer.value)
           IN  IF buffers.tag = "throw" THEN buffers
               ELSE float32Buffer2wav(buffers.value, numberOfChannels, outputSampleRate,
                                      outputBitDepth, isLittleEndian)

\* an inner loop that puts each resampled channel in front of the others
RECURSIVE resampleBuffer_Unshift(_, _, _, _, _)
resampleBuffer_Unshift(buffer, outputSampleRate, round, i, channelsBuffer) ==
  IF channelsBuffer.tag = "throw" \/ i >= Len(buffer.channels) THEN channelsBuffer
  ELSE LET data == sampleRateConverter(Some(buffer.channels[i + 1]), buffer.sampleRate,
                                       outputSampleRate, round)
       IN  resampleBuffer_Unshift(buffer, outputSampleRate, round, i + 1,
                          IF data.tag = "throw" THEN data
                          ELSE Return(<<data.value>> \o channelsBuffer.value))

\* the inner loop of mergeWavBlob over the channels of one decoded AudioBuffer:
\* channelsBuffer.push(sampleRateConverter(getChannelData(i), sampleRate, ...))
RECURSIVE resampleBuffer(_, _, _, _, _)
resampleBuffer(buffer, outputSampleRate, round, i, channelsBuffer) ==
  IF channelsBuffer.tag = "throw" \/ i >= Len(buffer.channels) THEN channelsBuffer
  ELSE LET data == sampleRateConverter(Some(buffer.channels[i + 1]), buffer.sampleRate,
                                       outputSampleRate, round)
       IN  resampleBuffer(buffer, outputSampleRate, round, i + 1,
                          IF data.tag = "throw" THEN data
                          ELSE Return(Append(channelsBuffer.value, data.value)))

\* the outer loop of mergeWavBlob over the decoded AudioBuffers:
\* numberOfChannels += buffer.numberOfChannels
RECURSIVE resampleBuffers(_, _, _, _, _, _)
resampleBuffers(audioBuffers, outputSampleRate, round, b, numberOfChannels, channelsBuffer) ==
  IF channelsBuffer.tag = "throw" \/ b >= Len(audioBuffers)
    THEN [numberOfChannels |-> numberOfChannels, channelsBuffer |-> channelsBuffer]
  ELSE resampleBuffers(audioBuffers, outputSampleRate, round, b + 1,
                       numberOfChannels + Len(audioBuffers[b + 1].channels),
                       resampleBuffer(audioBuffers[b + 1], outputSampleRate, round, 0,
                                      channelsBuffer))

\* mergeWavBlob on blobs that decodeAudioData has decoded into audioBuffers;
\* the outcome is the content of the Blob, or the rejection of the promise
mergeWavBlob(audioBuffers, outputSampleRate, bitDepth, round) ==
  LET loop == resampleBuffers(audioBuffers, outputSampleRate, round, 0, 0, Return(<<>>))
  IN  IF loop.channelsBuffer.tag = "throw" THEN loop.channelsBuffer
      ELSE LET buffers == mergeMultiChannelsBuffer(loop.channelsBuffer.value)
           IN  IF buffers.tag = "throw" THEN buffers
               ELSE float32Buffer2wav(buffers.value, loop.numberOfChannels,
                                      outputSampleRate, bitDepth, isLittleEndian)

(***************************************************************************)
(* encodePCM (utils.ts).                                                   *)
(***************************************************************************)
RECURSIVE encodeInt8(_, _, _)
encodeInt8(view, bytes, i) ==
  IF i >= Len(bytes) THEN view
  ELSE encodeInt8(setInt8(view, i, float32Value2Int8(bytes[i + 1])), bytes, i + 1)

RECURSIVE encodeInt16(_, _, _, _)
encodeInt16(view, bytes, i, littleEndian) ==
  IF i >= Len(bytes) THEN view
  ELSE encodeInt16(setInt16(view, i * 2, float32Value2Int16(bytes[i + 1]), littleEndian),
                   bytes, i + 1, littleEndian)

\* an encoder that hands back the empty view instead of throwing
encodePCM_NoThrow(bytes, bitDepth, littleEndian) ==
  LET dataLength == Mul(Int2Num(Len(bytes)), Rat(bitDepth, 8))
      view == ArrayBuffer(ToInteger(dataLength))
  IN  IF bitDepth = 8 THEN Return(encodeInt8(view, bytes, 0))
      ELSE IF bitDepth = 16 THEN Return(encodeInt16(view, bytes, 0, littleEndian))
      ELSE Return(view)

encodePCM(bytes, bitDepth, littleEndian) ==
  LET dataLength == Mul(Int2Num(Len(bytes)), Rat(bitDepth, 8))
      view == ArrayBuffer(ToInteger(dataLength))
  IN  IF bitDepth = 8 THEN Return(encodeInt8(view, bytes, 0))
      ELSE IF bitDepth = 16 THEN Return(encodeInt16(view, bytes, 0, littleEndian))
      ELSE Throw("bitDepth must be 8 or 16")

(***************************************************************************)
(* The same functions on references.  heap is the sequence of the typed     *)
(* arrays and ArrayBuffers that exist, a reference is an index into it, and  *)
(* a function takes the heap and references and gives back the heap it      *)
(* leaves and its outcome.  new appends an object; every store names the     *)
(* object it writes.  The objects a function fills are fresh, so the loops   *)
(* above, which read the channels as they were before the loop, compute the  *)
(* contents the fresh object ends with.                                      *)
(***************************************************************************)
\* the objects a list of references refers to
Deref(objects, refs) == [k \in 1..Len(refs) |-> objects[refs[k]]]

\* new: the object is appended, its reference is Len(objects) + 1
New(objects, contents) == Append(objects, contents)

\* the stores of a loop into the object ref
Store(objects, ref, contents) == [objects EXCEPT ![ref] = contents]

Outcome(objects, outcome) == [heap |-> objects, ret |-> outcome]

\* compressFloat32: no chunk gives a new empty array, one chunk is returned
\* as it is, more are copied into the new array data
compressFloat32OnHeap(objects, buffer) ==
  IF Len(buffer) = 0
    THEN Outcome(New(objects, Float32Array(0)), Return(Len(objects) + 1))
  ELSE IF Len(buffer) = 1 THEN Outcome(objects, Return(buffer[1]))
  ELSE LET data == Len(objects) + 1
           allocated == New(objects, Float32Array(totalLength(Deref(objects, buffer), 1)))
       IN  Outcome(Store(allocated, data,
                         copyChunks(allocated[data], Deref(allocated, buffer), 1, 0)),
                   Return(data))

\* mergeMultiChannelsBuffer: one channel is returned as it is, more are
\* interleaved into the new array mergedData
mergeMultiChannelsBufferOnHeap(objects, channels) ==
  IF Len(channels) = 1 THEN Outcome(objects, Return(channels[1]))
  ELSE IF Len(channels) = 0 THEN Outcome(objects, Throw("TypeError"))
  ELSE LET channelLength ==
             longestChannel(Deref(objects, channels), 1, Len(objects[channels[1]]))
           mergedData == Len(objects) + 1
           allocated == New(objects, Float32Array(channelLength * Len(channels)))
       IN  Outcome(Store(allocated, mergedData,
                         mergeLoop(allocated[mergedData], Deref(allocated, channels),
                                   channelLength, 0, 0)),
                   Return(mergedData))

\* a resampler whose fast path hands back a copy of the input
sampleRateConverterOnHeap_Copy(objects, input, inputSampleRate, outputSampleRate, round) ==
  IF input = 0 THEN Outcome(objects, Throw("input data is null"))
  ELSE IF inputSampleRate <= 1 \/ outputSampleRate <= 1
    THEN Outcome(objects, Throw("sample rate must be greater than 1"))
  ELSE Outcome(New(objects, sampleRateConverter(Some(objects[input]), inputSampleRate,
                                                outputSampleRate, round).value),
               Return(Len(objects) + 1))

\* sampleRateConverter: input is a reference, or 0 for null.  Equal rates
\* return input; otherwise the new array output is filled and returned (S and
\* T are local to the call)
sampleRateConverterOnHeap(objects, input, inputSampleRate, outputSampleRate, round) ==
  IF input = 0 THEN Outcome(objects, Throw("input data is null"))
  ELSE IF inputSampleRate <= 1 \/ outputSampleRate <= 1
    THEN Outcome(objects, Throw("sample rate must be greater than 1"))
  ELSE IF inputSampleRate = outputSampleRate THEN Outcome(objects, Return(input))
  ELSE Outcome(New(objects, sampleRateConverter(Some(objects[input]), inputSampleRate,
                                                outputSampleRate, round).value),
               Return(Len(objects) + 1))

\* a down-mix that stores the mean into the first channel
convertToMonoOnHeap_InPlace(objects, multiChannelData) ==
  IF Len(multiChannelData) = 1 THEN Outcome(objects, Return(multiChannelData[1]))
  ELSE IF Len(multiChannelData) = 0 THEN Outcome(objects, Throw("TypeError"))
  ELSE LET samples == Len(objects[multiChannelData[1]])
           monoData == multiChannelData[1]
       IN  Outcome(Store(objects, monoData,
                         monoLoop(objects[monoData], Deref(objects, multiChannelData),
                                  samples, 0)),
                   Return(monoData))

\* convertToMono: one channel is returned as it is, more are averaged into the
\* new array monoData
convertToMonoOnHeap(objects, multiChannelData) ==
  IF Len(multiChannelData) = 1 THEN Outcome(objects, Return(multiChannelData[1]))
  ELSE IF Len(multiChannelData) = 0 THEN Outcome(objects, Throw("TypeError"))
  ELSE LET samples == Len(objects[multiChannelData[1]])
           monoData == Len(objects) + 1
           allocated == New(objects, Float32Array(samples))
       IN  Outcome(Store(allocated, monoData,
                         monoLoop(allocated[monoData], Deref(allocated, multiChannelData),
                                  samples, 0)),
                   Return(monoData))

\* calcPcmAbsSum: the quantized samples go into the new Int16Array pcm, the sum
\* is returned
calcPcmAbsSumOnHeap(objects, buffers) ==
  LET mono == convertToMonoOnHeap(objects, buffers)
  IN  IF mono.ret.tag = "throw" THEN mono
      ELSE LET data == mono.heap[mono.ret.value]
               pcm == [j \in 1..Len(data) |-> ToInt16(float32Value2Int16(data[j]))]
           IN  Outcome(New(mono.heap, pcm), Return(absSumLoop(data, 0, Int2Num(0))))

\* float32Buffer2wav: the quantized samples go into a new Int8Array or
\* Int16Array, are spread into a new number[], and numberArray2wav returns a
\* view on a new ArrayBuffer
float32Buffer2wavOnHeap(objects, data, numberOfChannels, sampleRate, bitDepth, littleEndian) ==
  LET wav == float32Buffer2wav(objects[data], numberOfChannels, sampleRate, bitDepth,
                               littleEndian)
      array == [i \in 1..Len(objects[data]) |->
                  IF bitDepth = 8 THEN ToInt8(float32Value2Int8(objects[data][i]))
                  ELSE ToInt16(float32Value2Int16(objects[data][i]))]
  IN  IF wav.tag = "throw" THEN Outcome(objects, wav)
      ELSE Outcome(New(New(New(objects, array), array), wav.value),
                   Return(Len(objects) + 3))

(***************************************************************************)
(* Recorder (recorder.ts).  this holds the fields of the one Recorder.  The  *)
(* browser objects that one run of open()'s executor makes live in one slot *)
(* k of sessions: the AudioContext, the ScriptProcessorNode and, once        *)
(* getUserMedia has answered, the MediaStream and its source node.  A        *)
(* reference to any of them is k, 0 is undefined.  The objects of a closed   *)
(* context that nothing refers to any more are collected, and their slot is  *)
(* free for a later run.  The field analyser, which is written and never     *)
(* read, is left out.                                                        *)
(***************************************************************************)
\* the buffer size of createScriptProcessor: the length of every chunk
BufferSize == 4096
\* context.sampleRate of the AudioContexts of the browser
ContextSampleRate == 48000

\* audioSourceStream.channelCount: the channelCount attribute that the browser
\* gives a MediaStreamAudioSourceNode
SourceChannelCount == 2

\* new Recorder(options)
Recorder(options) ==
  [config |-> [numberOfChannels |-> options.numberOfChannels, sampleRate |-> 16000,
               cacheData |-> options.cacheData],
   context |-> 0, recorder |-> 0, stream |-> 0, audioSourceStream |-> 0,
   buffers |-> <<>>, isPaused |-> FALSE, isStoped |-> FALSE, dataLength |-> 0]

\* a slot of sessions that holds no objects
Free == [numberOfChannels |-> 0, state |-> "free", connected |-> FALSE,
         getUserMedia |-> "none"]

\* the objects of one run of the executor: a running AudioContext and a
\* ScriptProcessorNode of numberOfChannels channels that is connected to
\* nothing, with getUserMedia not yet answered
NewSession(numberOfChannels) ==
  [numberOfChannels |-> numberOfChannels, state |-> "running", connected |-> FALSE,
   getUserMedia |-> "pending"]

\* new Float32Array(e.inputBuffer.getChannelData(i)) of audioprocess event e
Chunk(e, i) == [event |-> e, channel |-> i, length |-> BufferSize]

\* for (const [index, buffer] of list.entries()) this.buffers[index].push(buffer);
\* push on the undefined this.buffers[index] throws and ends the handler
RECURSIVE pushChunks(_, _, _)
pushChunks(buffers, list, index) ==
  IF index > Len(list) \/ index > Len(buffers) THEN buffers
  ELSE pushChunks([buffers EXCEPT ![index] = Append(@, list[index])], list, index + 1)

\* a listener that does not look at isPaused
audioprocess_NoPauseCheck(self, numberOfChannels, e, heard) ==
  LET list == [i \in 1..numberOfChannels |-> Chunk(e, i)]
      counted == [self EXCEPT !.dataLength = @ + (IF Len(list) > 0 THEN list[1].length ELSE 0)]
  IN  [this |-> IF ~self.config.cacheData THEN counted
                ELSE IF Len(self.buffers) = 0
                  THEN [counted EXCEPT !.buffers = [i \in 1..Len(list) |-> <<list[i]>>]]
                ELSE [counted EXCEPT !.buffers = pushChunks(self.buffers, list, 1)],
       listened |-> [onAudioProcess |-> heard.onAudioProcess + 1,
                     onVolume |-> heard.onVolume + 1]]

\* the audioprocess listener of a processor of numberOfChannels channels on
\* event e; heard counts the calls of the two listeners of the application
audioprocess(self, numberOfChannels, e, heard) ==
  IF self.isPaused THEN [this |-> self, listened |-> heard]
  ELSE LET list == [i \in 1..numberOfChannels |-> Chunk(e, i)]
           counted == [self EXCEPT !.dataLength = @ + (IF Len(list) > 0 THEN list[1].length ELSE 0)]
       IN  [this |-> IF ~self.config.cacheData THEN counted
                     ELSE IF Len(self.buffers) = 0
                       THEN [counted EXCEPT !.buffers = [i \in 1..Len(list) |-> <<list[i]>>]]
                     ELSE [counted EXCEPT !.buffers = pushChunks(self.buffers, list, 1)],
            listened |-> [onAudioProcess |-> heard.onAudioProcess + 1,
                          onVolume |-> heard.onVolume + 1]]

pause(self) == [self EXCEPT !.isPaused = TRUE]

resume(self) == [self EXCEPT !.isPaused = FALSE]

resetBuffer(self) == [self EXCEPT !.buffers = <<>>, !.dataLength = 0]

reset(self) == resetBuffer([self EXCEPT !.isPaused = FALSE, !.isStoped = FALSE])

\* stop() up to its await: the processor this refers to is disconnected, the
\* references to the nodes and the stream are dropped; awaits is the context
\* whose close() stop() then waits for, 0 when it returns at once
stop(self, objects) ==
  [this |-> [self EXCEPT !.isPaused = FALSE, !.isStoped = TRUE,
                         !.audioSourceStream = 0, !.recorder = 0, !.stream = 0],
   sessions |-> IF self.recorder # 0
                  THEN [objects EXCEPT ![self.recorder].connected = FALSE]
                ELSE objects,
   awaits |-> IF self.context # 0 /\ objects[self.context].state # "closed"
                THEN self.context ELSE 0]

\* stop() after await this.context.close()
stopClosed(self) == [self EXCEPT !.context = 0]

\* open() after await this.stop(): reset() and the executor of the promise up
\* to the call of getUserMedia
openExecutor(self, objects) ==
  LET numberOfChannels == IF self.config.numberOfChannels = 0 THEN 1
                          ELSE self.config.numberOfChannels
      k == CHOOSE j \in 1..Len(objects) :
             objects[j] = Free /\ \A i \in 1..(j - 1) : objects[i] # Free
  IN  [this |-> [reset(self) EXCEPT !.context = k, !.recorder = k],
       sessions |-> [objects EXCEPT ![k] = NewSession(numberOfChannels)]]

\* the first callback of getUserMedia(...).then of run k: the nodes are made
\* in the context of the run and its processor is connected to the destination
onStream(self, objects, k) ==
  LET numberOfChannels == objects[k].numberOfChannels
      channelCount == SourceChannelCount
      resultChannels == IF numberOfChannels < channelCount THEN numberOfChannels
                        ELSE channelCount
  IN  [this |-> [self EXCEPT !.stream = k, !.audioSourceStream = k,
                             !.config.numberOfChannels = resultChannels,
                             !.config.sampleRate = ContextSampleRate],
       sessions |-> [objects EXCEPT ![k].connected = TRUE,
                                    ![k].getUserMedia = "settled"]]

\* the second callback of getUserMedia(...).then: reject(getErrorMessage(error))
onError(objects, k) == [objects EXCEPT ![k].getUserMedia = "settled"]

\* getDuration()
calculateAudioDuration(length, sampleRate) == MathRound(Rat(length * 1000, sampleRate))

getDuration(self) == calculateAudioDuration(self.dataLength, self.config.sampleRate)

\* no Recorder is in use
NoRecorder ==
  /\ this = Recorder([numberOfChannels |-> 1, cacheData |-> FALSE])
  /\ sessions = <<>>
  /\ closing = <<>>
  /\ micro = <<>>
  /\ event = [count |-> 0, numberOfChannels |-> 0]
  /\ listened = [onAudioProcess |-> 0, onVolume |-> 0]

(***************************************************************************)
(* Input domains.                                                          *)
(***************************************************************************)
\* every value a Float32Array element can hold, at the model's resolution
Float32Values ==
  {Rat(a, Unit) : a \in -MaxAmp..MaxAmp} \cup {NaN, PosInf, NegInf}

\* the samples of the buffers handed to the encoders: out of range, the two
\* ends of the range, silence, a fraction, and NaN
FrameValues == {Rat(-MaxAmp, Unit), Int2Num(-1), Int2Num(0), Rat(1, 2), Int2Num(1), NaN}

\* the samples of the chunks and channels handed to the accumulator, the
\* merger and the resampler
ChunkValues == {Rat(1, 2), Int2Num(-1)}
ResampleValues == {Rat(1, 2), Int2Num(-1), Rat(1, Unit)}

\* the numbers of the number[] handed to numberArray2wav
NumberValues == {-32768, -2, 258}

\* all sequences over S of length at most n
SeqsUpTo(S, n) == UNION {[1..k -> S] : k \in 0..n}

SampleRates == {16000, 44100}
ChannelCounts == 1..MaxChannels
\* the bit depths handed to the encoders, and those handed to writeWavHeader
BitDepths == {8, 12, 16, 24}
HeaderBitDepths == {8, 16, 24}
\* data chunk lengths handed to writeWavHeader
DataLengths == {0, 6, 65794}
\* the rates handed to the resampler
ConverterRates == {0, 1, 8000, 16000, 44100, 48000}

\* the samples of the frames handed to the volume meter: silence, a quiet and
\* a louder sample, one beyond full scale, and NaN
VolumeValues == {Int2Num(0), Rat(1, 64), Rat(1, 16), Rat(-MaxAmp, Unit), NaN}
\* frames of one channel (the Recorder's default) or two, of any lengths
VolumeChannelCounts == {1, 2}
VolumeFrames ==
  UNION {[1..c -> SeqsUpTo(VolumeValues, MaxChunkLen)] : c \in VolumeChannelCounts}
\* the largest absolute value of a 16-bit sample
Int16Limit == 32768
\* the sample counts handed to calcVolumePercentage on its own
PcmLengths == {1, 4}

(***************************************************************************)
(* Operations.  The functions are pure: the initial state holds one call   *)
(* with its arguments drawn from the bounded domains, on a host of either  *)
(* byte order where the function reads it, and one action per function     *)
(* applies it.  call records the call, ret its outcome.                    *)
(***************************************************************************)
Pending == [tag |-> "pending"]

Float32Value2Int8Calls ==
  {[op |-> "float32Value2Int8", data |-> data] : data \in Float32Values}

\* the samples of [-1, 1] in steps of 1 / SampleGrid
GridSamples == {Rat(a, SampleGrid) : a \in -SampleGrid..SampleGrid}

Float32Value2Int16Calls ==
  {[op |-> "float32Value2Int16", data |-> data] : data \in Float32Values \cup GridSamples}

CompressFloat32Calls ==
  {[op |-> "compressFloat32", buffer |-> buffer] :
     buffer \in SeqsUpTo(SeqsUpTo(ChunkValues, MaxChunkLen), MaxChunks)}

MergeMultiChannelsBufferCalls ==
  {[op |-> "mergeMultiChannelsBuffer", channels |-> channels] :
     channels \in SeqsUpTo(SeqsUpTo(ChunkValues, MaxChunkLen), MaxChunks)}

\* round: the side on which the double products of the interpolation loop fall
SampleRateConverterCalls ==
  [op : {"sampleRateConverter"},
   input : {Null} \cup {Some(b) : b \in SeqsUpTo(ResampleValues, MaxLen)},
   inputSampleRate : ConverterRates, outputSampleRate : ConverterRates,
   round : {-1, 0, 1}]

EncodePCMCalls ==
  [op : {"encodePCM"}, data : SeqsUpTo(FrameValues, MaxLen), bitDepth : BitDepths,
   littleEndian : BOOLEAN]

\* writeWavHeader on a view of 44 bytes or more that already holds data
WriteWavHeaderCalls ==
  [op : {"writeWavHeader"},
   view : {[i \in 1..(44 + extra) |-> fill] : extra \in 0..MaxExtra, fill \in {0, 255}},
   length : DataLengths, sampleRate : SampleRates, numberOfChannels : ChannelCounts,
   bitDepth : HeaderBitDepths, littleEndian : BOOLEAN]

CreateWavHeaderBufferCalls ==
  [op : {"createWavHeaderBuffer"}, length : DataLengths, sampleRate : SampleRates,
   numberOfChannels : ChannelCounts, bitDepth : HeaderBitDepths, littleEndian : BOOLEAN]

Float32Buffer2wavCalls ==
  [op : {"float32Buffer2wav"}, data : SeqsUpTo(FrameValues, MaxLen),
   numberOfChannels : ChannelCounts, sampleRate : SampleRates, bitDepth : BitDepths,
   littleEndian : BOOLEAN]

NumberArray2wavCalls ==
  [op : {"numberArray2wav"}, data : SeqsUpTo(NumberValues, MaxLen),
   numberOfChannels : ChannelCounts, sampleRate : SampleRates, bitDepth : BitDepths,
   littleEndian : BOOLEAN]

\* the n samples k/2, k/4, ... of channel or buffer k, so that no two are alike
Tone(k, n) == [i \in 1..n |-> Rat(k, 2 ^ i)]

\* the AudioBuffers decodeAudioData hands to mergeWavBlob: one channel or two,
\* of one sample or two each (an AudioBuffer has a channel and a sample at least)
AudioBuffers ==
  {[sampleRate |-> r, channels |-> [k \in 1..c |-> Tone(k, n)]] :
     r \in SampleRates, c \in {1, 2}, n \in {1, 2}}

MergeWavBlobCalls ==
  [op : {"mergeWavBlob"}, audioBuffers : SeqsUpTo(AudioBuffers, MaxBlobs),
   outputSampleRate : SampleRates, bitDepth : {8, 16}, round : {-1, 0, 1}]

\* the cached chunks of one channel or two handed to
\* mergeMultiChannelBuffer2Wav: channel k is a list of no, one or two chunks
\* of one sample each
ChannelChunks ==
  {[k \in 1..c |-> [m \in 1..n[k] |-> Tone(k + m, 1)]] :
     c \in {1, 2}, n \in [1..2 -> {0, 1, 2}]}

MergeMultiChannelBuffer2WavCalls ==
  [op : {"mergeMultiChannelBuffer2Wav"}, data : ChannelChunks,
   sampleRate : SampleRates, outputSampleRate : SampleRates,
   outputBitDepth : {8, 16}, round : {-1, 0, 1}]

ConvertToMonoCalls ==
  [op : {"convertToMono"}, multiChannelData : VolumeFrames]

CalcPcmAbsSumCalls ==
  [op : {"calcPcmAbsSum"}, buffers : VolumeFrames]

\* every sum of absolute 16-bit values of one sample or of four quiet ones
CalcVolumePercentageCalls ==
  [op : {"calcVolumePercentage"}, pcmAbsSum : 0..Int16Limit, pcmLength : PcmLengths]

GetVolumeCalls ==
  [op : {"getVolume"}, buffers : VolumeFrames]

\* the functions that take the host's byte order as the default of littleEndian
ReadsHostByteOrder ==
  {"float32Buffer2wav", "numberArray2wav", "mergeWavBlob", "mergeMultiChannelBuffer2Wav"}

Init ==
  /\ ret = Pending
  /\ heap = <<>>
  /\ NoRecorder
  /\ \/ call \in Float32Value2Int8Calls
     \/ call \in Float32Value2Int16Calls
     \/ call \in CompressFloat32Calls
     \/ call \in MergeMultiChannelsBufferCalls
     \/ call \in SampleRateConverterCalls
     \/ call \in EncodePCMCalls
     \/ call \in WriteWavHeaderCalls
     \/ call \in CreateWavHeaderBufferCalls
     \/ call \in Float32Buffer2wavCalls
     \/ call \in NumberArray2wavCalls
     \/ call \in ConvertToMonoCalls
     \/ call \in CalcPcmAbsSumCalls
     \/ call \in CalcVolumePercentageCalls
     \/ call \in GetVolumeCalls
     \/ call \in MergeWavBlobCalls
     \/ call \in MergeMultiChannelBuffer2WavCalls
  /\ hostLittleEndian \in IF call.op \in ReadsHostByteOrder THEN BOOLEAN ELSE {TRUE}

CallFloat32Value2Int8 ==
  /\ call.op = "float32Value2Int8" /\ ret = Pending
  /\ ret' = Return(float32Value2Int8(call.data))
  /\ UNCHANGED <<hostLittleEndian, call, heap, recorderVars>>

CallFloat32Value2Int16 ==
  /\ call.op = "float32Value2Int16" /\ ret = Pending
  /\ ret' = Return(float32Value2Int16(call.data))
  /\ UNCHANGED <<hostLittleEndian, call, heap, recorderVars>>

CallCompressFloat32 ==
  /\ call.op = "compressFloat32" /\ ret = Pending
  /\ ret' = Return(compressFloat32(call.buffer))
  /\ UNCHANGED <<hostLittleEndian, call, heap, recorderVars>>

CallMergeMultiChannelsBuffer ==
  /\ call.op = "mergeMultiChannelsBuffer" /\ ret = Pending
  /\ ret' = mergeMultiChannelsBuffer(call.channels)
  /\ UNCHANGED <<hostLittleEndian, call, heap, recorderVars>>

CallSampleRateConverter ==
  /\ call.op = "sampleRateConverter" /\ ret = Pending
  /\ ret' = sampleRateConverter(call.input, call.inputSampleRate,
                                call.outputSampleRate, call.round)
  /\ UNCHANGED <<hostLittleEndian, call, heap, recorderVars>>

CallEncodePCM ==
  /\ call.op = "encodePCM" /\ ret = Pending
  /\ ret' = encodePCM(call.data, call.bitDepth, call.littleEndian)
  /\ UNCHANGED <<hostLittleEndian, call, heap, recorderVars>>

CallWriteWavHeader ==
  /\ call.op = "writeWavHeader" /\ ret = Pending
  /\ ret' = Return(writeWavHeader(call.view, Int2Num(call.length), call.sampleRate,
                                  call.numberOfChannels, call.bitDepth, call.littleEndian))
  /\ UNCHANGED <<hostLittleEndian, call, heap, recorderVars>>

CallCreateWavHeaderBuffer ==
  /\ call.op = "createWavHeaderBuffer" /\ ret = Pending
  /\ ret' = Return(createWavHeaderBuffer(Int2Num(call.length), call.sampleRate,
                                         call.numberOfChannels, call.bitDepth,
                                         call.littleEndian))
  /\ UNCHANGED <<hostLittleEndian, call, heap, recorderVars>>

CallFloat32Buffer2wav ==
  /\ call.op = "float32Buffer2wav" /\ ret = Pending
  /\ ret' = float32Buffer2wav(call.data, call.numberOfChannels, call.sampleRate,
                              call.bitDepth, call.littleEndian)
  /\ UNCHANGED <<hostLittleEndian, call, heap, recorderVars>>

CallNumberArray2wav ==
  /\ call.op = "numberArray2wav" /\ ret = Pending
  /\ ret' = numberArray2wav(call.data, call.numberOfChannels, call.sampleRate,
                            call.bitDepth, call.littleEndian)
  /\ UNCHANGED <<hostLittleEndian, call, heap, recorderVars>>

CallConvertToMono ==
  /\ call.op = "convertToMono" /\ ret = Pending
  /\ ret' = convertToMono(call.multiChannelData)
  /\ UNCHANGED <<hostLittleEndian, call, heap, recorderVars>>

CallCalcPcmAbsSum ==
  /\ call.op = "calcPcmAbsSum" /\ ret = Pending
  /\ ret' = calcPcmAbsSum(call.buffers)
  /\ UNCHANGED <<hostLittleEndian, call, heap, recorderVars>>

CallCalcVolumePercentage ==
  /\ call.op = "calcVolumePercentage" /\ ret = Pending
  /\ ret' = Return(calcVolumePercentage(Int2Num(call.pcmAbsSum), Int2Num(call.pcmLength)))
  /\ UNCHANGED <<hostLittleEndian, call, heap, recorderVars>>

CallGetVolume ==
  /\ call.op = "getVolume" /\ ret = Pending
  /\ ret' = getVolume(call.buffers)
  /\ UNCHANGED <<hostLittleEndian, call, heap, recorderVars>>

CallMergeWavBlob ==
  /\ call.op = "mergeWavBlob" /\ ret = Pending
  /\ ret' = mergeWavBlob(call.audioBuffers, call.outputSampleRate, call.bitDepth, call.round)
  /\ UNCHANGED <<hostLittleEndian, call, heap, recorderVars>>

CallMergeMultiChannelBuffer2Wav ==
  /\ call.op = "mergeMultiChannelBuffer2Wav" /\ ret = Pending
  /\ ret' = mergeMultiChannelBuffer2Wav(call.data, call.sampleRate, call.outputSampleRate,
                                        call.outputBitDepth, call.round)
  /\ UNCHANGED <<hostLittleEndian, call, heap, recorderVars>>

Next ==
  \/ CallFloat32Value2Int8
  \/ CallFloat32Value2Int16
  \/ CallCompressFloat32
  \/ CallMergeMultiChannelsBuffer
  \/ CallSampleRateConverter
  \/ CallEncodePCM
  \/ CallWriteWavHeader
  \/ CallCreateWavHeaderBuffer
  \/ CallFloat32Buffer2wav
  \/ CallNumberArray2wav
  \/ CallConvertToMono
  \/ CallCalcPcmAbsSum
  \/ CallCalcVolumePercentage
  \/ CallGetVolume
  \/ CallMergeWavBlob
  \/ CallMergeMultiChannelBuffer2Wav

Spec == Init /\ [][Next]_vars

(***************************************************************************)
(* A caller that owns a few buffers and calls the functions on them, again  *)
(* and again in any order.  call.supplied holds the buffers as the caller    *)
(* made them; heap holds them as they are now, followed by the objects the   *)
(* last call made (the caller lets go of them before its next call).         *)
(***************************************************************************)
\* the buffers a caller makes: one or two, of any length, no two alike
SuppliedBuffers ==
  UNION {{[k \in 1..n |-> Tone(k, length[k])] : length \in [1..n -> 0..MaxChunkLen]} :
           n \in {1, 2}}

HeapInit ==
  /\ hostLittleEndian \in BOOLEAN
  /\ heap \in SuppliedBuffers
  /\ call = [op |-> "none", supplied |-> heap]
  /\ ret = Pending
  /\ NoRecorder

\* the caller's buffers as they are now, the references to them, and the
\* lists of references handed to the functions that take a list
Supplied == SubSeq(heap, 1, Len(call.supplied))
Refs == 1..Len(call.supplied)
RefLists == SeqsUpTo(Refs, 2)

HeapCompressFloat32 ==
  \E buffer \in RefLists :
    LET out == compressFloat32OnHeap(Supplied, buffer)
    IN  /\ call' = [op |-> "compressFloat32", buffer |-> buffer,
                    supplied |-> call.supplied]
        /\ heap' = out.heap
        /\ ret' = out.ret
        /\ UNCHANGED <<hostLittleEndian, recorderVars>>

HeapMergeMultiChannelsBuffer ==
  \E channels \in RefLists :
    LET out == mergeMultiChannelsBufferOnHeap(Supplied, channels)
    IN  /\ call' = [op |-> "mergeMultiChannelsBuffer", channels |-> channels,
                    supplied |-> call.supplied]
        /\ heap' = out.heap
        /\ ret' = out.ret
        /\ UNCHANGED <<hostLittleEndian, recorderVars>>

HeapSampleRateConverter ==
  \E input \in {0} \cup Refs, inputSampleRate \in SampleRates,
     outputSampleRate \in SampleRates, round \in {-1, 0, 1} :
    LET out == sampleRateConverterOnHeap(Supplied, input, inputSampleRate,
                                         outputSampleRate, round)
    IN  /\ call' = [op |-> "sampleRateConverter", input |-> input,
                    inputSampleRate |-> inputSampleRate,
                    outputSampleRate |-> outputSampleRate, round |-> round,
                    supplied |-> call.supplied]
        /\ heap' = out.heap
        /\ ret' = out.ret
        /\ UNCHANGED <<hostLittleEndian, recorderVars>>

HeapConvertToMono ==
  \E multiChannelData \in RefLists :
    LET out == convertToMonoOnHeap(Supplied, multiChannelData)
    IN  /\ call' = [op |-> "convertToMono", multiChannelData |-> multiChannelData,
                    supplied |-> call.supplied]
        /\ heap' = out.heap
        /\ ret' = out.ret
        /\ UNCHANGED <<hostLittleEndian, recorderVars>>

HeapCalcPcmAbsSum ==
  \E buffers \in RefLists :
    LET out == calcPcmAbsSumOnHeap(Supplied, buffers)
    IN  /\ call' = [op |-> "calcPcmAbsSum", buffers |-> buffers,
                    supplied |-> call.supplied]
        /\ heap' = out.heap
        /\ ret' = out.ret
        /\ UNCHANGED <<hostLittleEndian, recorderVars>>

HeapFloat32Buffer2wav ==
  \E data \in Refs, bitDepth \in {8, 12, 16} :
    LET out == float32Buffer2wavOnHeap(Supplied, data, 1, 16000, bitDepth, isLittleEndian)
    IN  /\ call' = [op |-> "float32Buffer2wav", data |-> data, bitDepth |-> bitDepth,
                    supplied |-> call.supplied]
        /\ heap' = out.heap
        /\ ret' = out.ret
        /\ UNCHANGED <<hostLittleEndian, recorderVars>>

HeapNext ==
  \/ HeapCompressFloat32
  \/ HeapMergeMultiChannelsBuffer
  \/ HeapSampleRateConverter
  \/ HeapConvertToMono
  \/ HeapCalcPcmAbsSum
  \/ HeapFloat32Buffer2wav

HeapSpec == HeapInit /\ [][HeapNext]_vars

(***************************************************************************)
(* One Recorder in a browser.  The application calls open, stop, pause,     *)
(* resume and resetBuffer at any moment, also while an earlier open() or    *)
(* stop() is waiting.  closing holds the calls of stop() that wait for      *)
(* context.close(), in the order of the calls; micro is the queue of the    *)
(* continuations that are ready to run, and the browser delivers its events *)
(* (a context closed, getUserMedia answered, audioprocess) only when that   *)
(* queue is empty.  event holds the number of audioprocess events delivered *)
(* and the channels of the last one, listened the number of calls of the    *)
(* two listeners the application has set.                                   *)
(***************************************************************************)
\* the options of the constructor: mono or three channels, with or without
\* the cache
RecorderOptions == [numberOfChannels : {1, 3}, cacheData : BOOLEAN]

\* the browser keeps the objects of two runs of open() at a time
NoSessions == <<Free, Free>>

RecorderInit ==
  /\ hostLittleEndian = TRUE
  /\ call = [op |-> "Recorder"]
  /\ ret = Pending
  /\ heap = <<>>
  /\ this \in {Recorder(options) : options \in RecorderOptions}
  /\ sessions = NoSessions
  /\ closing = <<>>
  /\ micro = <<>>
  /\ event = [count |-> 0, numberOfChannels |-> 0]
  /\ listened = [onAudioProcess |-> 0, onVolume |-> 0]

\* the objects of slot k can do nothing any more and nothing refers to them:
\* the context is closed, getUserMedia has answered, and neither this nor a
\* waiting stop() holds a reference
Garbage(self, objects, waiting, k) ==
  /\ objects[k].state = "closed"
  /\ objects[k].getUserMedia # "pending"
  /\ k \notin {self.context, self.recorder, self.stream, self.audioSourceStream}
  /\ \A i \in 1..Len(waiting) : waiting[i].context # k

Collect(self, objects, waiting) ==
  [k \in 1..Len(objects) |->
     IF Garbage(self, objects, waiting, k) THEN Free ELSE objects[k]]

\* stop() called by op, "open" or "stop" itself, up to its await, or to its
\* end when there is no context to close; then open() goes on in a microtask
CallStop(op) ==
  LET out == stop(this, sessions)
      waiting == IF out.awaits # 0
                   THEN Append(closing, [op |-> op, context |-> out.awaits])
                 ELSE closing
  IN  /\ this' = out.this
      /\ sessions' = Collect(out.this, out.sessions, waiting)
      /\ closing' = waiting
      /\ micro' = IF out.awaits = 0 /\ op = "open"
                    THEN Append(micro, [run |-> "openExecutor", op |-> "open"])
                  ELSE micro

Open ==
  /\ Len(closing) + Len(micro) < MaxWaiting
  /\ CallStop("open")
  /\ UNCHANGED <<hostLittleEndian, call, ret, heap, event, listened>>

Stop ==
  /\ stop(this, sessions).awaits # 0 => Len(closing) + Len(micro) < MaxWaiting
  /\ CallStop("stop")
  /\ UNCHANGED <<hostLittleEndian, call, ret, heap, event, listened>>

Pause ==
  /\ this' = pause(this)
  /\ UNCHANGED <<hostLittleEndian, call, ret, heap, sessions, closing, micro, event, listened>>

Resume ==
  /\ this' = resume(this)
  /\ UNCHANGED <<hostLittleEndian, call, ret, heap, sessions, closing, micro, event, listened>>

ResetBuffer ==
  /\ this' = resetBuffer(this)
  /\ UNCHANGED <<hostLittleEndian, call, ret, heap, sessions, closing, micro, event, listened>>

\* the browser has closed context c: every stop() that waits for it goes on
ContextClosed ==
  /\ micro = <<>>
  /\ \E c \in {closing[i].context : i \in 1..Len(closing)} :
       LET waiting == SelectSeq(closing, LAMBDA t : t.context = c)
           left == SelectSeq(closing, LAMBDA t : t.context # c)
       IN  /\ sessions' = Collect(this, [sessions EXCEPT ![c].state = "closed"], left)
           /\ micro' = [i \in 1..Len(waiting) |->
                          [run |-> "stopClosed", op |-> waiting[i].op]]
           /\ closing' = left
  /\ UNCHANGED <<hostLittleEndian, call, ret, heap, this, event, listened>>

\* stop() goes on after its await and returns; the open() that called it goes
\* on in a later microtask
StopClosed ==
  /\ micro # <<>> /\ Head(micro).run = "stopClosed"
  /\ this' = stopClosed(this)
  /\ sessions' = Collect(stopClosed(this), sessions, closing)
  /\ micro' = IF Head(micro).op = "open"
                THEN Append(Tail(micro), [run |-> "openExecutor", op |-> "open"])
              ELSE Tail(micro)
  /\ UNCHANGED <<hostLittleEndian, call, ret, heap, closing, event, listened>>

\* open() goes on after await this.stop()
OpenExecutor ==
  /\ micro # <<>> /\ Head(micro).run = "openExecutor"
  /\ \E k \in 1..Len(sessions) : sessions[k] = Free
  /\ LET out == openExecutor(this, sessions)
     IN  /\ this' = out.this
         /\ sessions' = Collect(out.this, out.sessions, closing)
  /\ micro' = Tail(micro)
  /\ UNCHANGED <<hostLittleEndian, call, ret, heap, closing, event, listened>>

\* getUserMedia of run k hands over a stream
GetUserMediaStream ==
  /\ micro = <<>>
  /\ \E k \in 1..Len(sessions) :
       /\ sessions[k].getUserMedia = "pending"
       /\ LET out == onStream(this, sessions, k)
          IN  /\ this' = out.this
              /\ sessions' = Collect(out.this, out.sessions, closing)
  /\ UNCHANGED <<hostLittleEndian, call, ret, heap, closing, micro, event, listened>>

\* getUserMedia of run k fails
GetUserMediaError ==
  /\ micro = <<>>
  /\ \E k \in 1..Len(sessions) :
       /\ sessions[k].getUserMedia = "pending"
       /\ sessions' = Collect(this, onError(sessions, k), closing)
  /\ UNCHANGED <<hostLittleEndian, call, ret, heap, this, closing, micro, event, listened>>

\* a processor that is connected to the destination of a context that is not
\* closed
Live(k) == sessions[k].connected /\ sessions[k].state = "running"

\* a live processor delivers an audioprocess event to its listener
AudioProcess ==
  /\ micro = <<>>
  /\ event.count < MaxEvents
  /\ \E k \in 1..Len(sessions) :
       /\ Live(k)
       /\ LET out == audioprocess(this, sessions[k].numberOfChannels, event.count + 1,
                                  listened)
          IN  /\ this' = out.this
              /\ listened' = out.listened
       /\ event' = [count |-> event.count + 1,
                   numberOfChannels |-> sessions[k].numberOfChannels]
  /\ UNCHANGED <<hostLittleEndian, call, ret, heap, sessions, closing, micro>>

RecorderNext ==
  \/ Open
  \/ Stop
  \/ Pause
  \/ Resume
  \/ ResetBuffer
  \/ ContextClosed
  \/ StopClosed
  \/ OpenExecutor
  \/ GetUserMediaStream
  \/ GetUserMediaError
  \/ AudioProcess

RecorderSpec == RecorderInit /\ [][RecorderNext]_vars

(***************************************************************************)
(* Properties.                                                             *)
(***************************************************************************)
\* a numeric sample: any Float32Array value except NaN
IsNumeric(x) == ~IsNaN(x)

\* s clamped to [-1, 1]
Clamped(s) ==
  IF Lt(s, Int2Num(-1)) THEN Int2Num(-1)
  ELSE IF Lt(Int2Num(1), s) THEN Int2Num(1)
  ELSE s

\* C1: for every numeric sample s, float32Value2Int16(s) returns c*32768 when
\* c < 0 and c*32767 otherwise, c being s clamped to [-1,1]; the result lies in
\* [-32768, 32767]; a sample below -1 gives the result of -1, a sample above 1
\* the result of 1, and the call never throws.
C1_Int16Quantizer ==
  (call.op = "float32Value2Int16" /\ ret # Pending /\ IsNumeric(call.data)) =>
    LET c == Clamped(call.data)
        r == ret.value
    IN  /\ ret.tag = "return"
        /\ IsNum(r)
        /\ r = IF c.n < 0 THEN Rat(c.n * 32768, c.d) ELSE Rat(c.n * 32767, c.d)
        /\ -32768 * r.d <= r.n /\ r.n <= 32767 * r.d
        /\ Lt(Int2Num(1), call.data) => r = Int2Num(32767)
        /\ Lt(call.data, Int2Num(-1)) => r = Int2Num(-32768)

\* an out-of-range sample has been quantized to the result of 1
C1_Witness ==
  /\ call.op = "float32Value2Int16"
  /\ Lt(Int2Num(1), call.data)
  /\ ret = Return(Int2Num(32767))

\* C2: for every numeric sample s, float32Value2Int8(s) returns c*128 + 128
\* when c < 0 and c*127 + 128 otherwise, c being s clamped to [-1,1]; the
\* result lies in [0, 255]; an out-of-range sample gives the result of -1 or
\* of 1, and the call never throws.
C2_Int8Quantizer ==
  (call.op = "float32Value2Int8" /\ ret # Pending /\ IsNumeric(call.data)) =>
    LET c == Clamped(call.data)
        r == ret.value
    IN  /\ ret.tag = "return"
        /\ IsNum(r)
        /\ r = IF c.n < 0 THEN Rat(c.n * 128 + 128 * c.d, c.d)
                         ELSE Rat(c.n * 127 + 128 * c.d, c.d)
        /\ 0 <= r.n /\ r.n <= 255 * r.d
        /\ Lt(Int2Num(1), call.data) => r = Int2Num(255)
        /\ Lt(call.data, Int2Num(-1)) => r = Int2Num(0)

\* an out-of-range negative sample has been quantized to the result of -1
C2_Witness ==
  /\ call.op = "float32Value2Int8"
  /\ Lt(call.data, Int2Num(-1))
  /\ ret = Return(Int2Num(0))

\* the unsigned integer of size bytes stored at byteOffset, as its base-256
\* digits, most significant first
getUint(view, byteOffset, size, littleEndian) ==
  [i \in 1..size |-> view[byteOffset + (IF littleEndian THEN size - i + 1 ELSE i)]]

\* the base-256 digits of the integer v, most significant first
Digits(v, size) == [i \in 1..size |-> ByteOf(v, size - i)]

\* the thirteen fields of the 44-byte header of view, read in one byte order
HeaderFields(view, littleEndian) ==
  [riff |-> SubSeq(view, 1, 4),
   chunkSize |-> getUint(view, 4, 4, littleEndian),
   wave |-> SubSeq(view, 9, 12),
   fmt |-> SubSeq(view, 13, 16),
   fmtSize |-> getUint(view, 16, 4, littleEndian),
   audioFormat |-> getUint(view, 20, 2, littleEndian),
   channelCount |-> getUint(view, 22, 2, littleEndian),
   sampleRate |-> getUint(view, 24, 4, littleEndian),
   byteRate |-> getUint(view, 28, 4, littleEndian),
   blockAlign |-> getUint(view, 32, 2, littleEndian),
   bitDepth |-> getUint(view, 34, 2, littleEndian),
   data |-> SubSeq(view, 37, 40),
   dataLength |-> getUint(view, 40, 4, littleEndian)]

\* the header the format prescribes for a payload of length bytes
CanonicalHeader(length, sampleRate, channelCount, bitDepth) ==
  [riff |-> <<82, 73, 70, 70>>,
   chunkSize |-> Digits(36 + length, 4),
   wave |-> <<87, 65, 86, 69>>,
   fmt |-> <<102, 109, 116, 32>>,
   fmtSize |-> Digits(16, 4),
   audioFormat |-> Digits(1, 2),
   channelCount |-> Digits(channelCount, 2),
   sampleRate |-> Digits(sampleRate, 4),
   byteRate |-> Digits((sampleRate * channelCount * bitDepth) \div 8, 4),
   blockAlign |-> Digits((channelCount * bitDepth) \div 8, 2),
   bitDepth |-> Digits(bitDepth, 2),
   data |-> <<100, 97, 116, 97>>,
   dataLength |-> Digits(length, 4)]

\* C3: writeWavHeader writes bytes 0..43 and nothing beyond: the view keeps its
\* length, every byte from offset 44 on keeps its value, and the 44 bytes hold
\* 'RIFF', 36+length, 'WAVE', 'fmt ', 16, 1, channelCount, sampleRate, byteRate,
\* blockAlign, bitDepth, 'data', length at offsets 0, 4, 8, 12, 16, 20, 22, 24,
\* 28, 32, 34, 36, 40; createWavHeaderBuffer returns exactly those 44 bytes.
C3_HeaderLayout ==
  /\ (call.op = "writeWavHeader" /\ ret # Pending) =>
       /\ ret.tag = "return"
       /\ Len(ret.value) = Len(call.view)
       /\ \A i \in 45..Len(call.view) : ret.value[i] = call.view[i]
       /\ HeaderFields(ret.value, call.littleEndian)
            = CanonicalHeader(call.length, call.sampleRate, call.numberOfChannels,
                              call.bitDepth)
  /\ (call.op = "createWavHeaderBuffer" /\ ret # Pending) =>
       /\ ret.tag = "return"
       /\ Len(ret.value) = 44
       /\ HeaderFields(ret.value, call.littleEndian)
            = CanonicalHeader(call.length, call.sampleRate, call.numberOfChannels,
                              call.bitDepth)

\* a big-endian header has been written into a longer view that held data
C3_Witness ==
  /\ call.op = "writeWavHeader" /\ ret.tag = "return"
  /\ Len(call.view) > 44 /\ call.view[45] = 255 /\ ret.value[45] = 255
  /\ ~call.littleEndian /\ call.length = 65794
  /\ SubSeq(ret.value, 41, 44) = <<0, 1, 1, 2>>

\* C4: for every buffer of n samples and bitDepth 8 or 16, float32Buffer2wav
\* returns 44 + n*bitDepth/8 bytes whose header (read in the byte order it was
\* written in) declares dataLength = n*bitDepth/8 and chunkSize = 36 +
\* dataLength, with byteRate and blockAlign derived from the same arguments.
C4_SizesDerived ==
  (call.op = "float32Buffer2wav" /\ ret # Pending /\ call.bitDepth \in {8, 16}) =>
    LET n == Len(call.data)
        dataLength == (n * call.bitDepth) \div 8
        h == HeaderFields(ret.value, hostLittleEndian)
    IN  /\ ret.tag = "return"
        /\ Len(ret.value) = 44 + dataLength
        /\ h.dataLength = Digits(dataLength, 4)
        /\ h.chunkSize = Digits(36 + dataLength, 4)
        /\ h.byteRate = Digits((call.sampleRate * call.numberOfChannels * call.bitDepth) \div 8, 4)
        /\ h.blockAlign = Digits((call.numberOfChannels * call.bitDepth) \div 8, 2)

\* the scenario: [0, 0.5, -1.0], mono, 16000 Hz, 16 bit gives 50 bytes that
\* declare dataLength 6, byteRate 32000, blockAlign 2
C4_Witness ==
  /\ call.op = "float32Buffer2wav" /\ ret.tag = "return"
  /\ call.data = <<Int2Num(0), Rat(1, 2), Int2Num(-1)>>
  /\ call.numberOfChannels = 1 /\ call.sampleRate = 16000 /\ call.bitDepth = 16
  /\ Len(ret.value) = 50
  /\ HeaderFields(ret.value, hostLittleEndian).dataLength = Digits(6, 4)
  /\ HeaderFields(ret.value, hostLittleEndian).byteRate = Digits(32000, 4)
  /\ HeaderFields(ret.value, hostLittleEndian).blockAlign = Digits(2, 2)

\* C5: float32Buffer2wav, numberArray2wav and encodePCM throw for every
\* bitDepth other than 8 or 16, and the outcome then carries no view.
C5_UnsupportedBitDepth ==
  (/\ call.op \in {"float32Buffer2wav", "numberArray2wav", "encodePCM"}
   /\ ret # Pending
   /\ call.bitDepth \notin {8, 16}) =>
    /\ ret.tag = "throw"
    /\ ret.message = "bitDepth must be 8 or 16"
    /\ "value" \notin DOMAIN ret

\* numberArray2wav has thrown on 24-bit data after it had written a header
C5_Witness ==
  /\ call.op = "numberArray2wav" /\ call.bitDepth = 24 /\ Len(call.data) > 0
  /\ ret.tag = "throw"

\* the 16-bit payload sample i of a container, as digits, in one byte order
PayloadSample(view, i, littleEndian) == getUint(view, 44 + 2 * i, 2, littleEndian)

\* C6: when float32Buffer2wav or numberArray2wav is called with a littleEndian
\* flag, every multi-byte integer of the header and every 16-bit payload sample
\* is written in that byte order, also when it is not the host's.
C6_ExplicitByteOrder ==
  (/\ call.op \in {"float32Buffer2wav", "numberArray2wav"}
   /\ ret # Pending
   /\ call.bitDepth \in {8, 16}) =>
    /\ ret.tag = "return"
    /\ HeaderFields(ret.value, call.littleEndian)
         = CanonicalHeader((Len(call.data) * call.bitDepth) \div 8, call.sampleRate,
                           call.numberOfChannels, call.bitDepth)
    /\ call.bitDepth = 16 =>
         \A i \in 0..(Len(call.data) - 1) :
           PayloadSample(ret.value, i, call.littleEndian)
             = Digits(IF call.op = "numberArray2wav" THEN call.data[i + 1]
                      ELSE ToInt16(float32Value2Int16(call.data[i + 1])), 2)

\* the start of chunk c (1-based) in the concatenation of the chunks
RECURSIVE ChunkStart(_, _)
ChunkStart(chunks, c) == IF c = 1 THEN 0 ELSE ChunkStart(chunks, c - 1) + Len(chunks[c - 1])

\* C7: compressFloat32 returns a buffer whose length is the sum of the chunk
\* lengths and which holds the samples in chunk order, then in-chunk order; no
\* chunk gives a buffer of length zero.
C7_Concatenation ==
  (call.op = "compressFloat32" /\ ret # Pending) =>
    LET chunks == call.buffer
        out == ret.value
    IN  /\ ret.tag = "return"
        /\ Len(out) = ChunkStart(chunks, Len(chunks) + 1)
        /\ \A c \in 1..Len(chunks) : \A i \in 1..Len(chunks[c]) :
             out[ChunkStart(chunks, c) + i] = chunks[c][i]
        /\ Len(chunks) = 0 => out = <<>>

\* three chunks of different lengths and contents have been concatenated
C7_Witness ==
  /\ call.op = "compressFloat32" /\ ret.tag = "return"
  /\ call.buffer = << <<Rat(1, 2)>>, <<>>, <<Int2Num(-1), Rat(1, 2)>> >>
  /\ ret.value = <<Rat(1, 2), Int2Num(-1), Rat(1, 2)>>

\* all channels have the length of the first
EqualLengths(channels) == \A j \in 1..Len(channels) : Len(channels[j]) = Len(channels[1])

\* C8: for N >= 1 channels of one length L, mergeMultiChannelsBuffer returns
\* N*L samples with channels[j][i] at position i*N + j; for N = 1 it returns
\* the channel itself.
C8_Interleave ==
  (/\ call.op = "mergeMultiChannelsBuffer" /\ ret # Pending
   /\ Len(call.channels) >= 1 /\ EqualLengths(call.channels)) =>
    LET N == Len(call.channels)
        L == Len(call.channels[1])
    IN  /\ ret.tag = "return"
        /\ Len(ret.value) = N * L
        /\ \A i \in 0..(L - 1) : \A j \in 0..(N - 1) :
             ret.value[i * N + j + 1] = call.channels[j + 1][i + 1]
        /\ N = 1 => ret.value = call.channels[1]

\* two different channels of two samples have been interleaved
C8_Witness ==
  /\ call.op = "mergeMultiChannelsBuffer" /\ ret.tag = "return"
  /\ call.channels = << <<Rat(1, 2), Rat(1, 2)>>, <<Int2Num(-1), Int2Num(-1)>> >>
  /\ ret.value = <<Rat(1, 2), Int2Num(-1), Rat(1, 2), Int2Num(-1)>>

\* the length of the longest channel
MaxChannelLength(channels) ==
  CHOOSE m \in {Len(channels[j]) : j \in 1..Len(channels)} :
    \A j \in 1..Len(channels) : Len(channels[j]) <= m

\* C9: for channels of unequal length, mergeMultiChannelsBuffer returns
\* max(length) * N samples and every position i*N + j with
\* i >= length(channels[j]) holds 0; no undefined or NaN sample is in the output.
C9_ZeroPadded ==
  (/\ call.op = "mergeMultiChannelsBuffer" /\ ret # Pending
   /\ Len(call.channels) >= 2 /\ ~EqualLengths(call.channels)) =>
    LET N == Len(call.channels)
        L == MaxChannelLength(call.channels)
    IN  /\ ret.tag = "return"
        /\ Len(ret.value) = N * L
        /\ \A i \in 0..(L - 1) : \A j \in 0..(N - 1) :
             IF i < Len(call.channels[j + 1])
             THEN ret.value[i * N + j + 1] = call.channels[j + 1][i + 1]
             ELSE ret.value[i * N + j + 1] = Int2Num(0)

\* C10: sampleRateConverter throws whenever the input is null or one of the
\* rates is <= 1, also when the two rates are equal, and then returns no buffer.
C10_ArgumentsValidated ==
  (/\ call.op = "sampleRateConverter" /\ ret # Pending
   /\ (call.input.null \/ call.inputSampleRate <= 1 \/ call.outputSampleRate <= 1)) =>
    /\ ret.tag = "throw"
    /\ "value" \notin DOMAIN ret
    /\ call.input.null => ret.message = "input data is null"

\* equal rates of 1 Hz with a buffer present have been rejected
C10_Witness ==
  /\ call.op = "sampleRateConverter" /\ ret.tag = "throw"
  /\ ~call.input.null /\ Len(call.input.data) > 0
  /\ call.inputSampleRate = 1 /\ call.outputSampleRate = 1

\* a call of sampleRateConverter that passes validation with two different rates
ConverterRuns ==
  /\ call.op = "sampleRateConverter" /\ ret # Pending
  /\ ~call.input.null
  /\ call.inputSampleRate > 1 /\ call.outputSampleRate > 1
  /\ call.inputSampleRate # call.outputSampleRate

\* m is inputLength * outputRate / inputRate rounded to the nearest integer,
\* halves rounded up: m - 1/2 <= inputLength * outputRate / inputRate < m + 1/2
IsRoundedLength(m) ==
  LET twice == 2 * Len(call.input.data) * call.outputSampleRate
  IN  /\ (2 * m - 1) * call.inputSampleRate <= twice
      /\ twice < (2 * m + 1) * call.inputSampleRate

\* C12: for every input buffer, lengths 0 and 1 included, and every pair of
\* valid different rates, the output of sampleRateConverter has
\* round(inputLength * outputRate / inputRate) samples, halves rounded up.
C12_OutputLength ==
  ConverterRuns => (ret.tag = "return" /\ IsRoundedLength(Len(ret.value)))

\* one sample at half the rate: 0.5 has been rounded up to one output sample
C12_Witness ==
  /\ ConverterRuns /\ ret.tag = "return"
  /\ Len(call.input.data) = 1
  /\ call.inputSampleRate = 16000 /\ call.outputSampleRate = 8000
  /\ Len(ret.value) = 1

\* C13: whenever sampleRateConverter produces at least one sample, output[0]
\* is input[0].
C13_FirstSampleCopied ==
  (ConverterRuns /\ ret.tag = "return" /\ Len(ret.value) >= 1) =>
    ret.value[1] = call.input.data[1]

\* the scenario: 3 samples from 16000 Hz to 8000 Hz give 2 samples, the first
\* being input[0]
C13_Witness ==
  /\ ConverterRuns /\ ret.tag = "return"
  /\ Len(call.input.data) = 3
  /\ call.inputSampleRate = 16000 /\ call.outputSampleRate = 8000
  /\ Len(ret.value) = 2
  /\ ret.value[1] = call.input.data[1]
  /\ call.input.data[1] # call.input.data[3]

\* C14: when the computed output length is 1, the call returns exactly the one
\* sample input[0], a finite number: the quotient by outputLength - 1 = 0
\* reaches neither the result nor an error.
C14_SingleSampleOutput ==
  (ConverterRuns /\ IsRoundedLength(1)) =>
    /\ ret = Return(<<call.input.data[1]>>)
    /\ IsNum(ret.value[1])

\* three samples at a third of the rate (f = 2/0) have given the one sample input[0]
C14_Witness ==
  /\ ConverterRuns /\ IsRoundedLength(1)
  /\ Len(call.input.data) = 3
  /\ call.inputSampleRate = 48000 /\ call.outputSampleRate = 16000
  /\ ret = Return(<<call.input.data[1]>>)

\* input[floor(fn)] + (fn - floor(fn)) * (input[ceil(fn)] - input[floor(fn)])
\* for fn = n * (inputLength - 1) / (outputLength - 1)
Interpolated(input, outputLength, n) ==
  LET fn == Rat(n * (Len(input) - 1), outputLength - 1)
      lo == input[Floor(fn) + 1]
      hi == input[Ceil(fn) + 1]
  IN  Add(lo, Mul(Sub(fn, Int2Num(Floor(fn))), Sub(hi, lo)))

\* C15: for every output index n in 1..outputLength-1, output[n] is the linear
\* interpolation of the input at fn = n * (inputLength-1)/(outputLength-1), on
\* the scale of the input: the division by 32768 and the multiplication by
\* 32768 cancel.
C15_LinearInterpolation ==
  (ConverterRuns /\ ret.tag = "return") =>
    \A n \in 1..(Len(ret.value) - 1) :
      ret.value[n + 1] = Interpolated(call.input.data, Len(ret.value), n)

\* [0.5, -1] at twice the rate: output[1] lies a third of the way, at 0
C15_Witness ==
  /\ ConverterRuns /\ ret.tag = "return"
  /\ call.input.data = <<Rat(1, 2), Int2Num(-1)>>
  /\ call.inputSampleRate = 8000 /\ call.outputSampleRate = 16000
  /\ Len(ret.value) = 4
  /\ ret.value[2] = Int2Num(0)
  /\ ret.value[4] = Int2Num(-1)
\* the frame of a call of the volume meter
Frame == IF call.op = "convertToMono" THEN call.multiChannelData ELSE call.buffers

IsLevel(x) == IsNum(x) /\ x.d = 1 /\ 0 <= x.n /\ x.n <= 100

\* C16: the volume calcVolumePercentage(calcPcmAbsSum(frame), sampleCount) of
\* a frame is an integer from 0 to 100; it is 0 for a frame of zeros and 0
\* for a frame of no samples
C16_LevelInRange ==
  (call.op = "getVolume" /\ ret # Pending) =>
    /\ ret.tag = "return"
    /\ IsLevel(ret.value)
    /\ (\A j \in 1..Len(call.buffers) : \A i \in 1..Len(call.buffers[j]) :
          call.buffers[j][i] = Int2Num(0)) => ret.value = Int2Num(0)
    /\ Len(call.buffers[1]) = 0 => ret.value = Int2Num(0)

\* a quiet stereo frame: the mono samples are 1/16 and 1/128, the power is
\* (2047.9375 + 255.9921875) / 2, the level round(9.2157) = 9
C16_Witness ==
  /\ call.op = "getVolume"
  /\ call.buffers = <<<<Rat(1, 16), Rat(1, 64)>>, <<Rat(1, 16), Int2Num(0)>>>>
  /\ ret = Return(Int2Num(9))

\* the power of a call of calcVolumePercentage and the one a step above it
\* on the grid of the calls: steps of 1 and of 1/4 from 0 to Int16Limit
NextPcmAbsSum == call.pcmAbsSum + 1

\* powers at the ends of the scale and on both sides of the switch from the
\* linear to the logarithmic region: 0, 1250, 1250.75, 1251, Int16Limit
Probes ==
  {<<0, 1>>, <<1250, 1>>, <<5003, 4>>, <<1251, 1>>, <<Int16Limit, 1>>}

\* p <= q for the powers p = a[1] / a[2] and q = b[1] / b[2]
PowerLeq(a, b) == a[1] * b[2] <= b[1] * a[2]

LevelOf(a) == calcVolumePercentage(Int2Num(a[1]), Int2Num(a[2]))

\* C17: the level never decreases as the power grows from 0 to 32768: the
\* level of a power is at most the level of the next power of the grid (so,
\* step by step, of every greater power of the grid), and it is ordered as
\* the powers are against each probe around the switch of regions
C17_Monotonic ==
  (call.op = "calcVolumePercentage" /\ ret # Pending /\ call.pcmLength > 0) =>
    LET p == <<call.pcmAbsSum, call.pcmLength>>
    IN  /\ ret.tag = "return"
        /\ NextPcmAbsSum <= Int16Limit =>
              ~Lt(LevelOf(<<NextPcmAbsSum, call.pcmLength>>), ret.value)
        /\ \A q \in Probes :
              /\ PowerLeq(p, q) => ~Lt(LevelOf(q), ret.value)
              /\ PowerLeq(q, p) => ~Lt(ret.value, LevelOf(q))

\* the last power of the linear region, 1250.75, and the first of the
\* logarithmic one, 1251, both at level 10
C17_Witness ==
  /\ call.op = "calcVolumePercentage"
  /\ call.pcmAbsSum = 5003 /\ call.pcmLength = 4
  /\ ret = Return(Int2Num(10))
  /\ LevelOf(<<NextPcmAbsSum, 4>>) = Int2Num(10)

\* C18: convertToMono and calcPcmAbsSum fail on a frame whose channels have
\* different lengths, instead of returning a mono buffer or a sum
C18_MismatchRejected ==
  (call.op \in {"convertToMono", "calcPcmAbsSum"} /\ ret # Pending /\ ~EqualLengths(Frame)) =>
    ret.tag = "throw"

\* what the functions do with such a frame: the mono buffer has the length of
\* the first channel and holds NaN where another channel is shorter, and the
\* sum is NaN then
MismatchOutcome ==
  (call.op \in {"convertToMono", "calcPcmAbsSum"} /\ ret # Pending /\ ~EqualLengths(Frame)) =>
    /\ ret.tag = "return"
    /\ call.op = "convertToMono" =>
          /\ Len(ret.value) = Len(Frame[1])
          /\ \A i \in 1..Len(ret.value) :
                (\E j \in 1..Len(Frame) : i > Len(Frame[j])) => ret.value[i] = NaN
    /\ call.op = "calcPcmAbsSum" =>
          ((\E j \in 1..Len(Frame) : Len(Frame[j]) < Len(Frame[1])) => ret.value = NaN)

\* the channels of the audioBuffers in input order, each with its sample rate
RECURSIVE InputChannels(_)
InputChannels(audioBuffers) ==
  IF audioBuffers = <<>> THEN <<>>
  ELSE [k \in 1..Len(Head(audioBuffers).channels) |->
          [sampleRate |-> Head(audioBuffers).sampleRate,
           data |-> Head(audioBuffers).channels[k]]] \o InputChannels(Tail(audioBuffers))

\* the bytes of sample i of a Float32Array in a payload of the bit depth
Quantized(x, bitDepth) ==
  IF bitDepth = 8 THEN Digits(ToInt8(float32Value2Int8(x)), 1)
  ELSE Digits(ToInt16(float32Value2Int16(x)), 2)

\* C19: the container mergeWavBlob makes of one blob or more declares as many
\* channels as the inputs have together and the output sample rate, and slot j
\* of frame i of its payload holds sample i of the j-th channel in input
\* order, resampled to the output rate and quantized
C19_MergedChannels ==
  (call.op = "mergeWavBlob" /\ ret # Pending /\ Len(call.audioBuffers) >= 1) =>
    LET channels == InputChannels(call.audioBuffers)
        bytes == call.bitDepth \div 8
    IN  /\ ret.tag = "return"
        /\ HeaderFields(ret.value, hostLittleEndian).channelCount = Digits(Len(channels), 2)
        /\ HeaderFields(ret.value, hostLittleEndian).sampleRate
             = Digits(call.outputSampleRate, 4)
        /\ \A j \in 1..Len(channels) :
             LET data == sampleRateConverter(Some(channels[j].data), channels[j].sampleRate,
                                             call.outputSampleRate, call.round).value
             IN  \A i \in 0..(Len(data) - 1) :
                   getUint(ret.value, 44 + (i * Len(channels) + j - 1) * bytes, bytes,
                           hostLittleEndian)
                     = Quantized(data[i + 1], call.bitDepth)

\* a mono blob at 16000 and a stereo blob at 44100 merged into three channels
\* at 16000
C19_Witness ==
  /\ call.op = "mergeWavBlob" /\ ret # Pending
  /\ Len(call.audioBuffers) = 2
  /\ Len(call.audioBuffers[1].channels) = 1 /\ call.audioBuffers[1].sampleRate = 16000
  /\ Len(call.audioBuffers[2].channels) = 2 /\ call.audioBuffers[2].sampleRate = 44100
  /\ Len(call.audioBuffers[1].channels[1]) = 2
  /\ call.outputSampleRate = 16000 /\ call.bitDepth = 16
  /\ ret.tag = "return"
  /\ HeaderFields(ret.value, hostLittleEndian).channelCount = <<0, 3>>
  /\ Len(ret.value) = 44 + 2 * 3 * 2

\* C11: sampleRateConverter(buf, r, r) with r > 1 returns the reference buf
\* itself: it makes no new object, and buf keeps its length and contents
C11_IdentityZeroCopy ==
  (/\ call.op = "sampleRateConverter" /\ ret # Pending
   /\ call.input # 0
   /\ call.inputSampleRate = call.outputSampleRate /\ call.outputSampleRate > 1) =>
    /\ ret = Return(call.input)
    /\ Len(heap) = Len(call.supplied)
    /\ heap[call.input] = call.supplied[call.input]

\* the second of two buffers, of two samples, has gone through at rate 44100
C11_Witness ==
  /\ call.op = "sampleRateConverter"
  /\ call.input = 2 /\ Len(call.supplied[2]) = 2
  /\ call.inputSampleRate = 44100 /\ call.outputSampleRate = 44100
  /\ ret = Return(2)

\* C20: whatever calls of compressFloat32, mergeMultiChannelsBuffer,
\* sampleRateConverter, convertToMono, calcPcmAbsSum and float32Buffer2wav the
\* caller has made on its buffers, each buffer has the length and the
\* contents the caller gave it
C20_BuffersUnchanged ==
  /\ Len(heap) >= Len(call.supplied)
  /\ \A r \in 1..Len(call.supplied) : heap[r] = call.supplied[r]

\* two different buffers of a sample each have been mixed into a new array
C20_Witness ==
  /\ call.op = "convertToMono"
  /\ call.multiChannelData = <<1, 2>>
  /\ call.supplied = <<<<Rat(1, 2)>>, <<Int2Num(1)>>>>
  /\ ret = Return(3)
  /\ heap = <<<<Rat(1, 2)>>, <<Int2Num(1)>>, <<Rat(3, 4)>>>>

\* the inverse scaling of a 16-bit sample: the algebraic inverse of
\* float32Value2Int16, v / 32768 below 0 and v / 32767 from 0 on
int16ToFloat(v) == IF v < 0 THEN Rat(v, 32768) ELSE Rat(v, 32767)

\* C21: a sample s of [-1, 1], quantized by float32Value2Int16, stored into an
\* Int16Array (which drops the fraction) and scaled back, is within 1/32767
\* of s
C21_RoundTrip ==
  (/\ call.op = "float32Value2Int16" /\ ret # Pending
   /\ IsNum(call.data)
   /\ ~Lt(call.data, Int2Num(-1)) /\ ~Lt(Int2Num(1), call.data)) =>
    /\ ret.tag = "return"
    /\ ~Lt(Rat(1, 32767),
           MathAbs(Sub(int16ToFloat(ToInt16(ret.value)), call.data)))

\* 0.999 is quantized to 32734.233, stored as 32734 and scaled back to
\* 32734 / 32767, which is not 0.999
C21_Witness ==
  /\ call.op = "float32Value2Int16"
  /\ call.data = Rat(999, 1000)
  /\ ret.tag = "return"
  /\ ToInt16(ret.value) = 32734
  /\ int16ToFloat(ToInt16(ret.value)) # call.data

\* the indices floor and ceil that step n of the interpolation loop of the
\* call reads the input at
LoopIndices(n) ==
  LET input == call.input.data
      inputLength == Len(input)
      S == [i \in 1..inputLength |-> Div(input[i], Int2Num(32768))]
      f == Div(Int2Num(inputLength - 1), Int2Num(Len(ret.value) - 1))
  IN  interpolate(S, inputLength, f, n, call.round)

\* C24: in every step of the interpolation loop of sampleRateConverter, for
\* valid different rates, 0 <= floor <= ceil <= inputLength - 1
C24_IndicesInBounds ==
  (ConverterRuns /\ ret.tag = "return") =>
    \A n \in 1..(Len(ret.value) - 1) :
      /\ 0 <= LoopIndices(n).floor
      /\ LoopIndices(n).floor <= LoopIndices(n).ceil
      /\ LoopIndices(n).ceil <= Len(call.input.data) - 1

\* two samples at 16000 go to six at 44100; the product f * 5 of the last
\* step falls above 1, ceil is 2 and the guard brings it back to floor = 1
C24_Witness ==
  /\ ConverterRuns /\ ret.tag = "return"
  /\ Len(call.input.data) = 2 /\ Len(ret.value) = 6
  /\ call.round = 1
  /\ LoopIndices(5).floor = 1 /\ LoopIndices(5).ceil = 1

\* C26: in an 8-bit container of float32Buffer2wav the payload byte of every
\* numeric sample s, read unsigned, is the integer part of
\* float32Value2Int8(s) and lies in 0..255: the Int8Array store and setInt8
\* wrap modulo 256 and leave the byte as it is (-1 gives 0, 0 gives 128,
\* 1 gives 255)
C26_UnsignedByte ==
  (call.op = "float32Buffer2wav" /\ ret # Pending /\ call.bitDepth = 8) =>
    /\ ret.tag = "return"
    /\ Len(ret.value) = 44 + Len(call.data)
    /\ \A i \in 1..Len(call.data) :
         IsNum(ToNumber(call.data[i])) =>
           /\ ret.value[44 + i] = Trunc(float32Value2Int8(call.data[i]))
           /\ ret.value[44 + i] \in 0..255
           /\ call.data[i] = Int2Num(-1) => ret.value[44 + i] = 0
           /\ call.data[i] = Int2Num(0) => ret.value[44 + i] = 128
           /\ call.data[i] = Int2Num(1) => ret.value[44 + i] = 255

\* full scale, a half and silence: 255 and 191 go through the Int8Array as
\* -1 and -65 and come out of setInt8 as the bytes 255 and 191
C26_Witness ==
  /\ call.op = "float32Buffer2wav" /\ call.bitDepth = 8
  /\ call.data = <<Int2Num(1), Rat(1, 2), Int2Num(0)>>
  /\ ToInt8(float32Value2Int8(call.data[1])) = -1
  /\ ret.tag = "return"
  /\ SubSeq(ret.value, 45, 47) = <<255, 191, 128>>

\* a call that merges channels into a container, and its bit depth
MergesChannels == call.op \in {"mergeMultiChannelBuffer2Wav", "mergeWavBlob"}
MergedBitDepth == IF call.op = "mergeWavBlob" THEN call.bitDepth ELSE call.outputBitDepth

\* the channels of the call at the output rate, as they are handed to
\* mergeMultiChannelsBuffer
ResampledChannels ==
  IF call.op = "mergeWavBlob"
    THEN LET channels == InputChannels(call.audioBuffers)
         IN  [j \in 1..Len(channels) |->
                sampleRateConverter(Some(channels[j].data), channels[j].sampleRate,
                                    call.outputSampleRate, call.round).value]
  ELSE [j \in 1..Len(call.data) |->
          sampleRateConverter(Some(compressFloat32(call.data[j])), call.sampleRate,
                              call.outputSampleRate, call.round).value]

\* digital silence in a payload of the bit depth
Silence(bitDepth) == IF bitDepth = 8 THEN <<128>> ELSE <<0, 0>>

\* C25: in the container mergeMultiChannelBuffer2Wav or mergeWavBlob makes of
\* channels of unequal length, every payload sample beyond the end of a
\* shorter channel is silence: the 16-bit value 0, or the 8-bit value 128
C25_SilencePadded ==
  (MergesChannels /\ ret # Pending /\ Len(ResampledChannels) >= 2) =>
    LET channels == ResampledChannels
        N == Len(channels)
        L == MaxChannelLength(channels)
        bytes == MergedBitDepth \div 8
    IN  /\ ret.tag = "return"
        /\ Len(ret.value) = 44 + N * L * bytes
        /\ \A j \in 1..N : \A i \in Len(channels[j])..(L - 1) :
             getUint(ret.value, 44 + (i * N + j - 1) * bytes, bytes, hostLittleEndian)
               = Silence(MergedBitDepth)

\* the same for 16-bit containers only, where a NaN sample is stored as 0
C25_SilencePadded16 ==
  (MergesChannels /\ ret # Pending /\ Len(ResampledChannels) >= 2
   /\ MergedBitDepth = 16) =>
    LET channels == ResampledChannels
        N == Len(channels)
        L == MaxChannelLength(channels)
    IN  /\ ret.tag = "return"
        /\ \A j \in 1..N : \A i \in Len(channels[j])..(L - 1) :
             getUint(ret.value, 44 + (i * N + j - 1) * 2, 2, hostLittleEndian) = <<0, 0>>

\* no call of stop() is under way: none waits for its context to close, none
\* is ready to go on after the wait
StopCompleted ==
  /\ closing = <<>>
  /\ \A i \in 1..Len(micro) : micro[i].run # "stopClosed"

\* C22: once stop() has completed (and until open() starts the next
\* recording) the cached buffers are empty and dataLength, hence
\* getDuration(), is 0
C22_ResetOnStop ==
  (this.isStoped /\ StopCompleted) =>
    /\ this.buffers = <<>>
    /\ this.dataLength = 0
    /\ getDuration(this) = 0

\* an audioprocess event is delivered in this step
Delivered == event'.count = event.count + 1

\* channel i of the cache, empty when the cache does not hold it
Cached(buffers, i) == IF i <= Len(buffers) THEN buffers[i] ELSE <<>>

C27_PausedNoEffect ==
  [][(Delivered /\ this.isPaused) =>
       /\ listened' = listened
       /\ this'.buffers = this.buffers
       /\ this'.dataLength = this.dataLength
       /\ this' = this]_vars

\* two events have been delivered, the first while recording, the second
\* while paused: the listeners have been called once, one chunk is cached
C27_Witness ==
  /\ this.isPaused /\ this.config.cacheData
  /\ event.count = 2
  /\ listened = [onAudioProcess |-> 1, onVolume |-> 1]
  /\ this.dataLength = BufferSize
  /\ Len(this.buffers) >= 1 /\ this.buffers[1] = <<Chunk(1, 1)>>

\* the slots that hold objects, the contexts that are not closed, the
\* processors that deliver events
Sessions == {k \in 1..Len(sessions) : sessions[k] # Free}
OpenContexts == {k \in Sessions : sessions[k].state # "closed"}
LiveProcessors == {k \in Sessions : Live(k)}

\* C28: however calls of open() overlap, at most one audio context and one
\* script processor are live at any time, and every context the Recorder has
\* made is the one it refers to or is closed
C28_OneLiveContext ==
  /\ Cardinality(OpenContexts) <= 1
  /\ Cardinality(LiveProcessors) <= 1
  /\ \A k \in Sessions : this.context = k \/ sessions[k].state = "closed"

\* every call of open() and stop() has settled: nothing waits for a context
\* to close, nothing is ready to go on, getUserMedia has answered every call
Settled ==
  /\ closing = <<>>
  /\ micro = <<>>
  /\ \A k \in Sessions : sessions[k].getUserMedia # "pending"

\* C29: when stop() was called while open() waited for getUserMedia and no
\* open() has been called since, then once both have settled the Recorder
\* holds no media stream and no source node.  (isStoped tells that no open()
\* has reset the Recorder after the last stop(); stop() drops both
\* references, so one that is held then was stored after that stop(), by the
\* getUserMedia callback of an open() that was waiting when stop() ran.)
C29_NothingHeldAfterStop ==
  (this.isStoped /\ Settled) =>
    /\ this.stream = 0
    /\ this.audioSourceStream = 0

\* C30: with cacheData enabled, all cached channels hold the same number of
\* chunks at all times
C30_ChannelsAligned ==
  this.config.cacheData =>
    \A i, j \in 1..Len(this.buffers) : Len(this.buffers[i]) = Len(this.buffers[j])

====
